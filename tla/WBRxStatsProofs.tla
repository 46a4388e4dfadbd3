-------------------------- MODULE WBRxStatsProofs --------------------------
(***************************************************************************)
(* What WBTxRx reports about its receiving side, for every set of cards,    *)
(* traffic and timing: the reported values stay in range, the pollution and *)
(* the key mismatch are about the last interval, and the transmitting card  *)
(* is chosen by what the cards really received.  The values depend on the   *)
(* counters of the interval in progress, so each invariant says what those  *)
(* counters have counted so far.                                            *)
(***************************************************************************)
EXTENDS WBRxStats, SequenceTheorems, FunctionTheorems, FiniteSetTheorems, NaturalsInduction, WellFoundedInduction, TLAPS

AirType == [wb : Nat, own : Nat, foreign : Nat]

SessionType == [valid : BOOLEAN, invalid : BOOLEAN]

Number == Nat \cup {NoNumber}

SeqType == [last : Number, received : Nat, missing : Nat, loss : -1..100]

HandledInv ==
  /\ traffic \in Traffic
  /\ handled \in [frames : 0..traffic.max, resets : 0..traffic.resets]

\* The counters behind the pollution are those of the interval in progress.
PollutionInv ==
  /\ pollution \in [total : Nat, openhd : Nat, perc : Int]
  /\ air \in [now : AirType, upTo : AirType]
  /\ pollution.total = air.now.foreign + air.now.wb
  /\ pollution.openhd = air.now.wb
  /\ PollutionIsShare

\* So are those of the session packets.
KeyInv ==
  /\ wrongKey \in [valid : Nat, invalid : Nat, mismatch : BOOLEAN]
  /\ keys \in [now : SessionType, upTo : SessionType]
  /\ keys.now.valid <=> wrongKey.valid # 0
  /\ keys.now.invalid <=> wrongKey.invalid # 0
  /\ WrongKeyTruthful

\* The counts of a card are those of the numbers of its window, its last number
\* is the last of them, and its loss is that of the window before.
CountedAs(h, received, missing) ==
  received = Cardinality(Steps(h)) /\ missing = Cardinality(Missed(h))

ReportedLoss(h) ==
  IF h = <<>> THEN -1
  ELSE Percent(Cardinality(Missed(h)), Cardinality(Missed(h)) + Cardinality(Steps(h)))

CardCounted(s, now, upTo) ==
  /\ s \in SeqType /\ now \in Seq(Number) /\ upTo \in Seq(Number)
  /\ s.last = IF now = <<>> THEN NoNumber ELSE now[Len(now)]
  /\ CountedAs(now, s.received, s.missing)
  /\ s.loss = ReportedLoss(upTo)

LossInv ==
  /\ seq \in [Card -> SeqType]
  /\ numbers \in [now : [Card -> Seq(Number)], upTo : [Card -> Seq(Number)]]
  /\ lowest \in -1..100
  /\ \A c \in Card : CardCounted(seq[c], numbers.now[c], numbers.upTo[c])

\* Without a reset, the cards are compared by what they heard since the last time.
TxInv ==
  /\ tx \in [curr : Card, valid : [Card -> Nat], last : [Card -> Nat]]
  /\ heard \in [now : [Card -> Nat], upTo : [Card -> Nat], from : Card,
                reset : BOOLEAN, upToReset : BOOLEAN]
  /\ ~heard.reset => \A c \in Card : tx.valid[c] - tx.last[c] = heard.now[c]
  /\ TxCardJustified

IInv == HandledInv /\ PollutionInv /\ KeyInv /\ LossInv /\ TxInv

-----------------------------------------------------------------------------
(* Percentages *)

\* A share of a total is a percentage.
LEMMA PercentRange ==
  ASSUME NEW n \in Nat, NEW total \in Nat \ {0}, n <= total
  PROVE  Percent(n, total) \in 0..100
<1> DEFINE q == Percent(n, total)
<1>1. 100 * n + total - 1 >= 0 /\ 100 * n + total - 1 < 101 * total
  OBVIOUS
<1>2. q \in Int /\ q >= 0
  BY <1>1 DEF Percent
<1>3. q < 101
  BY <1>1 DEF Percent
<1> QED
  BY <1>2, <1>3

-----------------------------------------------------------------------------
(* Link pollution *)

\* A frame of card 0 is counted, once, by what it is.
LEMMA PollutionCounted ==
  ASSUME PollutionInv, NEW c, NEW p, NEW validated \in BOOLEAN,
         validated => ~FromOwn(p), Pollution(c, p, validated)
  PROVE  PollutionInv'
<1>1. CASE c # 0
  <2>1. pollution' = pollution /\ air' = air
    BY <1>1 DEF Pollution, CountPollution, CountAir
  <2> QED
    BY <2>1 DEF PollutionInv, PollutionIsShare
<1>2. CASE c = 0 /\ validated
  <2>1. /\ pollution' = [pollution EXCEPT !.total = @ + 1, !.openhd = @ + 1]
        /\ air' = [air EXCEPT !.now["wb"] = @ + 1]
    BY <1>2 DEF Pollution, CountPollution, CountAir
  <2>. pollution \in [total : Nat, openhd : Nat, perc : Int]
    BY DEF PollutionInv
  <2>2. /\ pollution' \in [total : Nat, openhd : Nat, perc : Int]
        /\ pollution'.total = pollution.total + 1 /\ pollution'.openhd = pollution.openhd + 1
        /\ pollution'.perc = pollution.perc
    <3>1. pollution' = [total |-> pollution.total + 1, openhd |-> pollution.openhd + 1,
                        perc |-> pollution.perc]
      BY <2>1
    <3>2. pollution.total \in Nat /\ pollution.openhd \in Nat /\ pollution.perc \in Int
      OBVIOUS
    <3>3. pollution.total + 1 \in Nat /\ pollution.openhd + 1 \in Nat
      BY <3>2
    <3>4. pollution' \in [total : Nat, openhd : Nat, perc : Int]
      BY <3>1, <3>2, <3>3
    <3> QED
      BY <3>1, <3>4
  <2>3. /\ air' \in [now : AirType, upTo : AirType] /\ air'.upTo = air.upTo
        /\ air'.now.foreign = air.now.foreign /\ air'.now.wb = air.now.wb + 1
    BY <2>1 DEF PollutionInv, AirType
  <2>4. pollution'.total = air'.now.foreign + air'.now.wb
    BY <2>2, <2>3 DEF PollutionInv, AirType
  <2> QED
    BY <2>2, <2>3, <2>4 DEF PollutionInv, PollutionIsShare
<1>3. CASE c = 0 /\ ~validated /\ FromOwn(p)
  <2>1. /\ pollution' = pollution
        /\ air' = [air EXCEPT !.now["own"] = @ + 1]
    BY <1>3 DEF Pollution, CountPollution, CountAir
  <2>2. /\ air' \in [now : AirType, upTo : AirType] /\ air'.upTo = air.upTo
        /\ air'.now.foreign = air.now.foreign /\ air'.now.wb = air.now.wb
    BY <2>1 DEF PollutionInv, AirType
  <2> QED
    BY <2>1, <2>2 DEF PollutionInv, PollutionIsShare
<1>4. CASE c = 0 /\ ~validated /\ ~FromOwn(p)
  <2>1. /\ pollution' = [pollution EXCEPT !.total = @ + 1, !.openhd = @]
        /\ air' = [air EXCEPT !.now["foreign"] = @ + 1]
    BY <1>4 DEF Pollution, CountPollution, CountAir
  <2>. pollution \in [total : Nat, openhd : Nat, perc : Int]
    BY DEF PollutionInv
  <2>2. /\ pollution' \in [total : Nat, openhd : Nat, perc : Int]
        /\ pollution'.total = pollution.total + 1 /\ pollution'.openhd = pollution.openhd
        /\ pollution'.perc = pollution.perc
    <3>1. pollution' = [total |-> pollution.total + 1, openhd |-> pollution.openhd,
                        perc |-> pollution.perc]
      BY <2>1
    <3>2. pollution.total \in Nat /\ pollution.openhd \in Nat /\ pollution.perc \in Int
      OBVIOUS
    <3>3. pollution.total + 1 \in Nat /\ pollution.openhd \in Nat
      BY <3>2
    <3>4. pollution' \in [total : Nat, openhd : Nat, perc : Int]
      BY <3>1, <3>2, <3>3
    <3> QED
      BY <3>1, <3>4
  <2>3. /\ air' \in [now : AirType, upTo : AirType] /\ air'.upTo = air.upTo
        /\ air'.now.foreign = air.now.foreign + 1 /\ air'.now.wb = air.now.wb
    BY <2>1 DEF PollutionInv, AirType
  <2>4. pollution'.total = air'.now.foreign + air'.now.wb
    BY <2>2, <2>3 DEF PollutionInv, AirType
  <2> QED
    BY <2>2, <2>3, <2>4 DEF PollutionInv, PollutionIsShare
<1> QED
  BY <1>1, <1>2, <1>3, <1>4

\* What a step validates does not come from this unit.
LEMMA PeersOnly ==
  ASSUME NEW p
  PROVE  /\ OpensSession(p) => ~FromOwn(p)
         /\ ValidData(p) => ~FromOwn(p)
BY WBRxStatsAssumption DEF OpensSession, IsSessionPacket, ValidData, IsDataPacket, FromPeer, FromOwn

LEMMA PollutionStep ==
  ASSUME PollutionInv, [Next]_vars
  PROVE  PollutionInv'
<1>1. CASE UNCHANGED vars
  BY <1>1 DEF vars, PollutionInv, PollutionIsShare
<1>2. ASSUME NEW c \in Card, NEW p \in traffic.frames, Discard(c, p)
      PROVE  PollutionInv'
  BY <1>2, PollutionCounted DEF Discard
<1>3. ASSUME NEW c \in Card, NEW p \in traffic.frames, ProcessSessionStreamPacket(c, p)
      PROVE  PollutionInv'
  <2>1. Pollution(c, p, OpensSession(p))
    BY <1>3 DEF ProcessSessionStreamPacket
  <2>2. OpensSession(p) \in BOOLEAN
    BY DEF OpensSession
  <2>3. OpensSession(p) => ~FromOwn(p)
    BY PeersOnly
  <2> QED
    BY <2>1, <2>2, <2>3, PollutionCounted
<1>4. ASSUME NEW c \in Card, NEW p \in traffic.frames, ProcessCommonStreamPacket(c, p)
      PROVE  PollutionInv'
  <2>1. Pollution(c, p, TRUE) /\ ~FromOwn(p)
    BY <1>4, PeersOnly DEF ProcessCommonStreamPacket
  <2> QED
    BY <2>1, PollutionCounted
<1>5. CASE RecalculatePollutionPerc
  <2>1. /\ pollution' = PollutionRecalculated(pollution)
        /\ air' = [now |-> NoAir, upTo |-> air.now]
    BY <1>5 DEF RecalculatePollutionPerc
  <2> DEFINE t == pollution.total
             o == pollution.openhd
             f == air.now.foreign
             w == air.now.wb
  <2>2. /\ t \in Nat /\ o \in Nat /\ f \in Nat /\ w \in Nat /\ t = f + w /\ o = w
    BY DEF PollutionInv, AirType
  <2>3. /\ pollution'.total = 0 /\ pollution'.openhd = 0
        /\ pollution'.perc = IF t > 0 THEN Percent(t - o, t) ELSE 0
        /\ pollution' = [total |-> 0, openhd |-> 0, perc |-> pollution'.perc]
    BY <2>1 DEF PollutionRecalculated
  <2>4. /\ air' \in [now : AirType, upTo : AirType]
        /\ air'.now.foreign = 0 /\ air'.now.wb = 0
        /\ air'.upTo.foreign = f /\ air'.upTo.wb = w
    BY <2>1 DEF PollutionInv, AirType, NoAir
  <2> HIDE DEF t, o, f, w
  <2>5. /\ t - o = f /\ (t > 0 <=> f + w # 0) /\ f + w = t
    BY <2>2
  <2>6. pollution'.perc = IF f + w = 0 THEN 0 ELSE Percent(f, f + w)
    <3>1. CASE f + w = 0
      BY <3>1, <2>3, <2>5
    <3>2. CASE f + w # 0
      BY <3>2, <2>3, <2>5
    <3> QED
      BY <3>1, <3>2
  <2>7. pollution'.perc \in Int
    <3>1. CASE t = 0
      BY <3>1, <2>3
    <3>2. CASE t # 0
      <4>1. Percent(t - o, t) \in 0..100
        <5>1. t - o \in Nat /\ t \in Nat \ {0} /\ t - o <= t
          BY <3>2, <2>2, <2>5
        <5> QED
          BY <5>1, PercentRange
      <4> QED
        BY <4>1, <3>2, <2>2, <2>3
    <3> QED
      BY <3>1, <3>2
  <2>8. pollution' \in [total : Nat, openhd : Nat, perc : Int]
    BY <2>3, <2>7
  <2> QED
    BY <2>3, <2>4, <2>6, <2>8 DEF PollutionInv, PollutionIsShare
<1>6. CASE RxResetStats
  <2>1. /\ pollution' = [pollution EXCEPT !.perc = 0]
        /\ air' = [air EXCEPT !.upTo = NoAir]
    BY <1>6 DEF RxResetStats
  <2>2. /\ pollution' \in [total : Nat, openhd : Nat, perc : Int]
        /\ pollution'.total = pollution.total /\ pollution'.openhd = pollution.openhd
        /\ pollution'.perc = 0
    BY <2>1 DEF PollutionInv
  <2>3. /\ air' \in [now : AirType, upTo : AirType]
        /\ air'.now = air.now /\ air'.upTo.foreign = 0 /\ air'.upTo.wb = 0
    BY <2>1 DEF PollutionInv, AirType, NoAir
  <2> QED
    BY <2>2, <2>3 DEF PollutionInv, PollutionIsShare
<1> QED
  BY <1>1, <1>2, <1>3, <1>4, <1>5, <1>6 DEF Next

-----------------------------------------------------------------------------
(* Session packets and the key *)

LEMMA KeyStep ==
  ASSUME KeyInv, [Next]_vars
  PROVE  KeyInv'
<1>1. CASE UNCHANGED keyVars
  BY <1>1 DEF keyVars, KeyInv, WrongKeyTruthful
<1>2. ASSUME NEW c \in Card, NEW p \in traffic.frames, ProcessSessionStreamPacket(c, p)
      PROVE  KeyInv'
  <2> DEFINE opened == OpensSession(p)
             counted == IF opened THEN [wrongKey EXCEPT !.valid = @ + 1]
                        ELSE [wrongKey EXCEPT !.invalid = @ + 1]
             seen == IF opened THEN [keys.now EXCEPT !.valid = TRUE]
                     ELSE [keys.now EXCEPT !.invalid = TRUE]
  <2>1. \/ wrongKey' = counted /\ keys' = [keys EXCEPT !.now = seen]
        \/ wrongKey' = CheckKey(counted) /\ keys' = [now |-> NoSession, upTo |-> seen]
    BY <1>2 DEF ProcessSessionStreamPacket
  <2>2. /\ counted \in [valid : Nat, invalid : Nat, mismatch : BOOLEAN]
        /\ counted.mismatch = wrongKey.mismatch
        /\ seen \in SessionType
        /\ seen.valid <=> counted.valid # 0
        /\ seen.invalid <=> counted.invalid # 0
    <3>1. CASE opened
      <4>1. /\ counted = [wrongKey EXCEPT !.valid = @ + 1]
            /\ seen = [keys.now EXCEPT !.valid = TRUE]
        BY <3>1
      <4> HIDE DEF counted, seen
      <4>2. /\ counted \in [valid : Nat, invalid : Nat, mismatch : BOOLEAN]
            /\ counted.mismatch = wrongKey.mismatch
            /\ counted.valid = wrongKey.valid + 1 /\ counted.invalid = wrongKey.invalid
            /\ counted.valid # 0
        BY <4>1 DEF KeyInv
      <4>3. seen \in SessionType /\ seen.valid = TRUE /\ seen.invalid = keys.now.invalid
        BY <4>1 DEF KeyInv, SessionType
      <4> QED
        BY <4>2, <4>3 DEF KeyInv
    <3>2. CASE ~opened
      <4>1. /\ counted = [wrongKey EXCEPT !.invalid = @ + 1]
            /\ seen = [keys.now EXCEPT !.invalid = TRUE]
        BY <3>2
      <4> HIDE DEF counted, seen
      <4>2. /\ counted \in [valid : Nat, invalid : Nat, mismatch : BOOLEAN]
            /\ counted.mismatch = wrongKey.mismatch
            /\ counted.invalid = wrongKey.invalid + 1 /\ counted.valid = wrongKey.valid
            /\ counted.invalid # 0
        BY <4>1 DEF KeyInv
      <4>3. seen \in SessionType /\ seen.invalid = TRUE /\ seen.valid = keys.now.valid
        BY <4>1 DEF KeyInv, SessionType
      <4> QED
        BY <4>2, <4>3 DEF KeyInv
    <3> QED
      BY <3>1, <3>2
  <2> HIDE DEF counted, seen
  <2>3. CASE wrongKey' = counted /\ keys' = [keys EXCEPT !.now = seen]
    <3>1. /\ keys' \in [now : SessionType, upTo : SessionType]
          /\ keys'.now = seen /\ keys'.upTo = keys.upTo
      BY <2>2, <2>3 DEF KeyInv
    <3> QED
      BY <3>1, <2>2, <2>3 DEF KeyInv, WrongKeyTruthful
  <2>4. CASE wrongKey' = CheckKey(counted) /\ keys' = [now |-> NoSession, upTo |-> seen]
    <3>1. /\ wrongKey' = [valid |-> 0, invalid |-> 0,
                          mismatch |-> counted.valid = 0 /\ counted.invalid >= 1]
      BY <2>4 DEF CheckKey
    <3>2. /\ wrongKey' \in [valid : Nat, invalid : Nat, mismatch : BOOLEAN]
          /\ wrongKey'.valid = 0 /\ wrongKey'.invalid = 0
      BY <3>1
    <3>3. wrongKey'.mismatch <=> counted.valid = 0 /\ counted.invalid >= 1
      BY <3>1
    <3>4. counted.invalid >= 1 <=> counted.invalid # 0
      BY <2>2
    <3>5. /\ keys' \in [now : SessionType, upTo : SessionType]
          /\ keys'.now.valid = FALSE /\ keys'.now.invalid = FALSE /\ keys'.upTo = seen
      BY <2>2, <2>4 DEF NoSession, SessionType
    <3>6. wrongKey'.mismatch <=> keys'.upTo.invalid /\ ~keys'.upTo.valid
      BY <3>3, <3>4, <3>5, <2>2
    <3> QED
      BY <3>2, <3>5, <3>6 DEF KeyInv, WrongKeyTruthful
  <2> QED
    BY <2>1, <2>3, <2>4
<1>3. CASE RxResetStats
  <2>1. /\ wrongKey' = [wrongKey EXCEPT !.mismatch = FALSE]
        /\ keys' = [keys EXCEPT !.upTo = NoSession]
    BY <1>3 DEF RxResetStats
  <2>2. /\ wrongKey' \in [valid : Nat, invalid : Nat, mismatch : BOOLEAN]
        /\ wrongKey'.valid = wrongKey.valid /\ wrongKey'.invalid = wrongKey.invalid
        /\ wrongKey'.mismatch = FALSE
    BY <2>1 DEF KeyInv
  <2>3. /\ keys' \in [now : SessionType, upTo : SessionType]
        /\ keys'.now = keys.now /\ keys'.upTo.invalid = FALSE /\ keys'.upTo.valid = FALSE
    BY <2>1 DEF KeyInv, SessionType, NoSession
  <2> QED
    BY <2>2, <2>3 DEF KeyInv, WrongKeyTruthful
<1>4. \A c \in Card, p \in traffic.frames :
        Discard(c, p) \/ ProcessCommonStreamPacket(c, p) => UNCHANGED keyVars
  BY DEF Discard, ProcessCommonStreamPacket
<1>5. RecalculatePollutionPerc \/ UNCHANGED vars => UNCHANGED keyVars
  BY DEF RecalculatePollutionPerc, vars, keyVars
<1> QED
  BY <1>1, <1>2, <1>3, <1>4, <1>5 DEF Next

-----------------------------------------------------------------------------
(* The numbers of a loss window *)

\* A number that counts after the numbers of a window.
Follows(h, n) ==
  /\ Len(h) >= 1 /\ h[Len(h)] # NoNumber
  /\ n # NoNumber /\ n > h[Len(h)] /\ n - h[Len(h)] <= MaxGap

\* One more number is one more step, or none.
LEMMA StepsAppend ==
  ASSUME NEW h \in Seq(Number), NEW n \in Number
  PROVE  Steps(Append(h, n)) = IF Follows(h, n) THEN Steps(h) \cup {Len(h)} ELSE Steps(h)
<1> DEFINE a == Append(h, n)
           m == Len(h)
<1>1. /\ m \in Nat /\ Len(a) = m + 1
      /\ \A i \in 1..m : a[i] = h[i]
      /\ a[m + 1] = n
  BY AppendProperties
<1>2. Steps(a) = {i \in 1..m : a[i] # NoNumber /\ a[i + 1] # NoNumber
                               /\ a[i + 1] > a[i] /\ a[i + 1] - a[i] <= MaxGap}
  <2>1. Len(a) - 1 = m
    BY <1>1
  <2> HIDE DEF a, m
  <2> QED
    BY <2>1 DEF Steps
<1> HIDE DEF a
<1>3. ASSUME NEW i
      PROVE  i \in Steps(a) <=> i \in Steps(h) \/ (i = m /\ Follows(h, n))
  <2>1. CASE i \in 1..(m - 1)
    <3>1. /\ i \in 1..m /\ i + 1 \in 1..m /\ i # m
      BY <2>1, <1>1
    <3>2. a[i] = h[i] /\ a[i + 1] = h[i + 1]
      BY <3>1, <1>1
    <3> QED
      BY <2>1, <3>1, <3>2, <1>2 DEF Steps
  <2>2. CASE i = m /\ m >= 1
    <3>1. m \in 1..m /\ m \notin 1..(m - 1)
      BY <2>2, <1>1
    <3>2. a[m] = h[m] /\ a[m + 1] = n
      BY <3>1, <1>1
    <3>3. i \notin Steps(h)
      BY <3>1, <2>2 DEF Steps
    <3>4. i \in Steps(a) <=> Follows(h, n)
      BY <3>1, <3>2, <2>2, <1>2 DEF Follows
    <3> QED
      BY <3>3, <3>4, <2>2
  <2>3. CASE i \notin 1..(m - 1) /\ ~(i = m /\ m >= 1)
    <3>1. i \notin 1..m
      BY <2>3, <1>1
    <3> QED
      BY <3>1, <2>3, <1>2 DEF Steps, Follows
  <2> QED
    BY <2>1, <2>2, <2>3
<1>4. CASE Follows(h, n)
  BY <1>3, <1>4 DEF a
<1>5. CASE ~Follows(h, n)
  BY <1>3, <1>5 DEF a
<1> QED
  BY <1>4, <1>5

\* The steps of a window are between its numbers.
LEMMA StepsFinite ==
  ASSUME NEW h \in Seq(Number)
  PROVE  /\ IsFiniteSet(Steps(h)) /\ Cardinality(Steps(h)) \in Nat
         /\ Len(h) \notin Steps(h)
         /\ \A i \in Steps(h) : i \in 1..Len(h) /\ i + 1 \in 1..Len(h)
                                /\ h[i] \in Nat /\ h[i + 1] \in Nat
<1>1. Len(h) \in Nat
  OBVIOUS
<1>2. Steps(h) \subseteq 1..(Len(h) - 1)
  BY DEF Steps
<1>3. IsFiniteSet(1..(Len(h) - 1))
  BY <1>1, FS_Interval
<1>4. IsFiniteSet(Steps(h))
  BY <1>2, <1>3, FS_Subset
<1>5. ASSUME NEW i \in Steps(h)
      PROVE  /\ i \in 1..Len(h) /\ i + 1 \in 1..Len(h)
             /\ h[i] \in Nat /\ h[i + 1] \in Nat
  <2>1. i \in 1..Len(h) /\ i + 1 \in 1..Len(h)
    BY <1>1, <1>2
  <2>2. h[i] \in Number /\ h[i + 1] \in Number
    BY <2>1
  <2>3. h[i] # NoNumber /\ h[i + 1] # NoNumber
    BY DEF Steps
  <2> QED
    BY <2>1, <2>2, <2>3 DEF Number
<1> QED
  BY <1>1, <1>2, <1>4, <1>5, FS_CardinalityType

\* What one step passes over.
LEMMA GapCount ==
  ASSUME NEW i, NEW a \in Nat, NEW b \in Nat
  PROVE  /\ IsFiniteSet({i} \X (a + 1 .. b - 1))
         /\ a < b => Cardinality({i} \X (a + 1 .. b - 1)) = b - a - 1
<1> DEFINE T == a + 1 .. b - 1
<1>1. a + 1 \in Int /\ b - 1 \in Int
  OBVIOUS
<1>2. /\ IsFiniteSet(T)
      /\ Cardinality(T) = IF a + 1 > b - 1 THEN 0 ELSE (b - 1) - (a + 1) + 1
  BY <1>1, FS_Interval
<1>3. a < b => Cardinality(T) = b - a - 1
  BY <1>2
<1>4. IsFiniteSet({i}) /\ Cardinality({i}) = 1
  BY FS_Singleton
<1> HIDE DEF T
<1>5. IsFiniteSet({i} \X T) /\ Cardinality({i} \X T) = Cardinality({i}) * Cardinality(T)
  BY <1>2, <1>4, FS_Product
<1>6. Cardinality(T) \in Nat
  BY <1>2, FS_CardinalityType
<1>7. Cardinality({i} \X T) = Cardinality(T)
  BY <1>4, <1>5, <1>6
<1> QED
  BY <1>3, <1>5, <1>7 DEF T

LEMMA MissedFinite ==
  ASSUME NEW h \in Seq(Number)
  PROVE  IsFiniteSet(Missed(h)) /\ Cardinality(Missed(h)) \in Nat
<1> DEFINE gap(i) == {i} \X (h[i] + 1 .. h[i + 1] - 1)
<1>1. \A i \in Steps(h) : IsFiniteSet(gap(i))
  BY StepsFinite, GapCount
<1>2. IsFiniteSet(Steps(h))
  BY StepsFinite
<1> HIDE DEF gap
<1>3. IsFiniteSet({gap(i) : i \in Steps(h)})
  <2> DEFINE f == [i \in Steps(h) |-> gap(i)]
  <2>1. f \in Surjection(Steps(h), {gap(i) : i \in Steps(h)})
    BY DEF Surjection
  <2> QED
    BY <1>2, <2>1, FS_Surjection
<1>4. IsFiniteSet(UNION {gap(i) : i \in Steps(h)})
  BY <1>1, <1>3, FS_UNION
<1>5. Missed(h) = UNION {gap(i) : i \in Steps(h)}
  BY DEF Missed, gap
<1> QED
  BY <1>4, <1>5, FS_CardinalityType

\* One more number is counted once, with what it passes over.
LEMMA CountedAppend ==
  ASSUME NEW h \in Seq(Number), NEW n \in Number, NEW r, NEW m, CountedAs(h, r, m)
  PROVE  /\ Follows(h, n) =>
              CountedAs(Append(h, n), r + 1, m + (n - h[Len(h)] - 1))
         /\ ~Follows(h, n) => CountedAs(Append(h, n), r, m)
<1> DEFINE a == Append(h, n)
           k == Len(h)
           gap == {k} \X (h[k] + 1 .. n - 1)
<1>1. /\ k \in Nat
      /\ \A i \in 1..k : a[i] = h[i]
      /\ a[k + 1] = n
  BY AppendProperties
<1>2. \A i \in Steps(h) : a[i] = h[i] /\ a[i + 1] = h[i + 1]
  BY <1>1, StepsFinite
<1>3. CASE ~Follows(h, n)
  <2>1. Steps(a) = Steps(h)
    BY <1>3, StepsAppend
  <2> HIDE DEF a
  <2>2. Missed(a) = Missed(h)
    BY <1>2, <2>1 DEF Missed
  <2> QED
    BY <1>3, <2>1, <2>2 DEF CountedAs, a
<1>4. CASE Follows(h, n)
  <2>1. Steps(a) = Steps(h) \cup {k}
    BY <1>4, StepsAppend
  <2>2. k \in 1..k /\ h[k] \in Nat /\ n \in Nat /\ h[k] < n
    <3>1. k \in 1..k
      BY <1>1, <1>4 DEF Follows
    <3>2. h[k] \in Number
      BY <3>1
    <3> QED
      BY <3>1, <3>2, <1>4 DEF Follows, Number
  <2>3. a[k] = h[k] /\ a[k + 1] = n
    BY <1>1, <2>2
  <2>4. Missed(a) = Missed(h) \cup gap
    <3> DEFINE G(i) == {i} \X (h[i] + 1 .. h[i + 1] - 1)
               A(i) == {i} \X (a[i] + 1 .. a[i + 1] - 1)
    <3>1. \A i \in Steps(h) : A(i) = G(i)
      BY <1>2
    <3>2. A(k) = gap
      BY <2>3
    <3>3. Missed(a) = UNION {A(i) : i \in Steps(a)} /\ Missed(h) = UNION {G(i) : i \in Steps(h)}
      BY DEF Missed
    <3> HIDE DEF A, G, gap, a, k
    <3> QED
      BY <2>1, <3>1, <3>2, <3>3
  <2>5. Missed(h) \cap gap = {}
    <3>1. \A x \in Missed(h) : x[1] \in Steps(h)
      BY DEF Missed
    <3>2. \A x \in gap : x[1] = k
      OBVIOUS
    <3>3. k \notin Steps(h)
      BY StepsFinite
    <3> HIDE DEF gap, k
    <3> QED
      BY <3>1, <3>2, <3>3
  <2>6. IsFiniteSet(gap) /\ Cardinality(gap) = n - h[k] - 1
    BY <2>2, GapCount
  <2>7. /\ IsFiniteSet(Missed(h)) /\ Cardinality(Missed(h)) \in Nat
        /\ IsFiniteSet(Steps(h)) /\ Cardinality(Steps(h)) \in Nat /\ k \notin Steps(h)
    BY MissedFinite, StepsFinite
  <2> HIDE DEF a, gap, k
  <2>8. Cardinality(Missed(a)) = Cardinality(Missed(h)) + Cardinality(gap) - Cardinality(Missed(h) \cap gap)
    BY <2>4, <2>6, <2>7, FS_Union
  <2>9. Cardinality(Missed(h) \cap gap) = 0
    BY <2>5, FS_EmptySet
  <2>10. Cardinality(Missed(a)) = Cardinality(Missed(h)) + (n - h[k] - 1)
    <3>1. n - h[k] - 1 \in Int
      BY <2>2
    <3> QED
      BY <2>6, <2>7, <2>8, <2>9, <3>1
  <2>11. Cardinality(Steps(a)) = Cardinality(Steps(h)) + 1
    BY <2>1, <2>7, FS_AddElement
  <2> QED
    BY <1>4, <2>10, <2>11 DEF CountedAs, a, k
<1> QED
  BY <1>3, <1>4

\* A window begins with nothing counted.
LEMMA CountedFirst ==
  /\ CountedAs(<<>>, 0, 0)
  /\ \A n : CountedAs(<<n>>, 0, 0)
<1>1. \A h : Steps(h) = {} => CountedAs(h, 0, 0)
  <2>1. ASSUME NEW h, Steps(h) = {}
        PROVE  Missed(h) = {}
    BY <2>1 DEF Missed
  <2> QED
    BY <2>1, FS_EmptySet DEF CountedAs
<1>2. Steps(<<>>) = {}
  BY DEF Steps
<1>3. ASSUME NEW n
      PROVE  Steps(<<n>>) = {}
  <2>1. Len(<<n>>) - 1 = 0 /\ 1..0 = {}
    OBVIOUS
  <2> QED
    BY <2>1 DEF Steps
<1> QED
  BY <1>1, <1>2, <1>3

-----------------------------------------------------------------------------
(* Packet loss *)

LEMMA OverBoolean ==
  ASSUME NEW timer, NEW b \in Over(timer)
  PROVE  b \in BOOLEAN
BY DEF Over

\* A card counts its next number, and at the end of a window reports and starts
\* a new one from that number.
LEMMA CardStep ==
  ASSUME NEW s, NEW now, NEW upTo, CardCounted(s, now, upTo),
         NEW n \in Nat, NEW over2s \in BOOLEAN, NEW over5s \in BOOLEAN
  PROVE  IF Counts(s, n) /\ WindowOver([s EXCEPT !.received = @ + 1], over2s, over5s)
         THEN CardCounted(SeqAfter(s, n, over2s, over5s), <<n>>, Append(now, n))
         ELSE CardCounted(SeqAfter(s, n, over2s, over5s), Append(now, n), upTo)
<1> DEFINE t == [s EXCEPT !.last = n, !.received = @ + 1, !.missing = @ + (n - s.last - 1)]
           a == Append(now, n)
           x == SeqAfter(s, n, over2s, over5s)
           over == WindowOver([s EXCEPT !.received = @ + 1], over2s, over5s)
<1>1. /\ s \in SeqType /\ now \in Seq(Number) /\ upTo \in Seq(Number)
      /\ s.last = IF now = <<>> THEN NoNumber ELSE now[Len(now)]
      /\ CountedAs(now, s.received, s.missing)
      /\ s.loss = ReportedLoss(upTo)
  BY DEF CardCounted
<1>2. n \in Number /\ n # NoNumber
  BY DEF Number, NoNumber
<1>3. /\ a \in Seq(Number) /\ a # <<>> /\ a[Len(a)] = n
  BY <1>1, <1>2, AppendProperties
<1>4. <<n>> \in Seq(Number) /\ <<n>> # <<>> /\ <<n>>[Len(<<n>>)] = n
  BY <1>2
<1>5. /\ Counts(s, n) <=> Follows(now, n)
      /\ Follows(now, n) => s.last = now[Len(now)] /\ s.last \in Nat /\ s.last < n
  <2>1. CASE now = <<>>
    BY <1>1, <2>1 DEF Counts, Follows
  <2>2. CASE now # <<>>
    <3>1. Len(now) >= 1 /\ s.last = now[Len(now)]
      BY <1>1, <2>2
    <3>2. s.last \in Number
      BY <1>1 DEF SeqType
    <3> QED
      BY <1>2, <3>1, <3>2 DEF Counts, Follows, Number
  <2> QED
    BY <2>1, <2>2
<1>6. /\ s.received \in Nat /\ s.missing \in Nat /\ s.loss \in -1..100 /\ s.last \in Number
  BY <1>1 DEF SeqType
<1>7. CASE ~Counts(s, n)
  <2>1. x = [s EXCEPT !.last = n]
    BY <1>7 DEF SeqAfter
  <2> HIDE DEF x
  <2>2. /\ x \in SeqType /\ x.last = n /\ x.received = s.received
        /\ x.missing = s.missing /\ x.loss = s.loss
    BY <1>1, <1>2, <2>1 DEF SeqType
  <2>3. CountedAs(a, x.received, x.missing)
    BY <1>1, <1>2, <1>5, <1>7, <2>2, CountedAppend
  <2>4. CardCounted(x, a, upTo)
    BY <1>1, <1>3, <2>2, <2>3 DEF CardCounted
  <2> QED
    BY <2>4, <1>7 DEF x
<1>8. CASE Counts(s, n)
  <2>1. n - s.last - 1 \in Nat
    BY <1>5, <1>8
  <2>2. t = [last |-> n, received |-> s.received + 1,
             missing |-> s.missing + (n - s.last - 1), loss |-> s.loss]
    <3> DEFINE r == s.received + 1
               m == s.missing + (n - s.last - 1)
    <3>1. t = [s EXCEPT !.last = n, !.received = r, !.missing = m]
      BY <1>1 DEF SeqType
    <3> HIDE DEF t, r, m
    <3>2. t = [last |-> n, received |-> r, missing |-> m, loss |-> s.loss]
      BY <1>1, <3>1 DEF SeqType
    <3> QED
      BY <3>2 DEF r, m
  <2>3. s.received + 1 \in Nat /\ s.missing + (n - s.last - 1) \in Nat
    BY <1>6, <2>1
  <2> HIDE DEF t
  <2>4. /\ t \in SeqType /\ t.last = n /\ t.received = s.received + 1
        /\ t.missing = s.missing + (n - s.last - 1) /\ t.loss = s.loss
    BY <1>2, <1>6, <2>2, <2>3 DEF SeqType
  <2>5. CountedAs(a, t.received, t.missing)
    BY <1>1, <1>2, <1>5, <1>8, <2>4, CountedAppend
  <2>6. over <=> WindowOver(t, over2s, over5s)
    <3>1. [s EXCEPT !.received = @ + 1].received = s.received + 1
      BY <1>1 DEF SeqType
    <3> QED
      BY <2>4, <3>1 DEF WindowOver
  <2>7. x = IF WindowOver(t, over2s, over5s) THEN Recalculated(t) ELSE t
    BY <1>8 DEF SeqAfter, t
  <2>8. CASE ~over
    <3>1. x = t
      BY <2>6, <2>7, <2>8
    <3> HIDE DEF x, over
    <3>2. CardCounted(x, a, upTo)
      BY <1>1, <1>3, <2>4, <2>5, <3>1 DEF CardCounted
    <3> QED
      BY <3>2, <2>8 DEF x, over
  <2>9. CASE over
    <3> DEFINE p == Percent(t.missing, t.received + t.missing)
    <3>1. x = [t EXCEPT !.loss = p, !.received = 0, !.missing = 0]
      BY <2>6, <2>7, <2>9 DEF Recalculated
    <3>2. t.received \in Nat \ {0} /\ t.missing \in Nat
      BY <1>6, <2>1, <2>4
    <3>3. p \in 0..100
      <4>1. t.received + t.missing \in Nat \ {0} /\ t.missing <= t.received + t.missing
        BY <3>2
      <4> QED
        BY <3>2, <4>1, PercentRange
    <3>4. p = ReportedLoss(a)
      <4>1. t.received + t.missing = t.missing + t.received
        BY <3>2
      <4> QED
        BY <1>3, <2>5, <4>1 DEF ReportedLoss, CountedAs
    <3> HIDE DEF p, x, over
    <3>5. x = [last |-> n, received |-> 0, missing |-> 0, loss |-> p]
      BY <2>4, <3>1 DEF SeqType
    <3>6. p \in -1..100
      BY <3>3
    <3>7. /\ x \in SeqType /\ x.last = n /\ x.received = 0 /\ x.missing = 0 /\ x.loss = p
      BY <1>2, <3>5, <3>6 DEF SeqType
    <3>8. CardCounted(x, <<n>>, a)
      BY <1>3, <1>4, <3>4, <3>7, CountedFirst DEF CardCounted
    <3> QED
      BY <3>8, <1>8, <2>9 DEF x, over
  <2> QED
    BY <2>8, <2>9
<1> QED
  BY <1>7, <1>8

\* Natural numbers have a least one in every set.
LEMMA LeastNatural ==
  ASSUME NEW T, T \subseteq Nat, T # {}
  PROVE  \E m \in T : \A n \in T : m <= n
<1>1. PICK m \in T : \A n \in T : ~(<<n, m>> \in OpToRel(<, Nat))
  BY WFMin, NatLessThanWellFounded
<1>2. \A n \in T : ~(n < m)
  BY <1>1 DEF OpToRel
<1> QED
  BY <1>2

\* The lowest of the known losses is one of them.
LEMMA LowestRange ==
  ASSUME NEW s \in [Card -> SeqType]
  PROVE  LowestLoss(s) \in -1..100
<1> DEFINE known == {s[c].loss : c \in Card} \ {-1}
<1>1. known \subseteq 0..100
  BY DEF SeqType
<1>2. LowestLoss(s) = IF known = {} THEN -1 ELSE Min(known)
  BY DEF LowestLoss
<1> HIDE DEF known
<1>3. CASE known = {}
  BY <1>2, <1>3
<1>4. CASE known # {}
  <2>1. known \subseteq Nat
    BY <1>1
  <2>2. \E m \in known : \A n \in known : m <= n
    BY <2>1, <1>4, LeastNatural
  <2>3. Min(known) \in known
    BY <2>2 DEF Min
  <2>4. Min(known) \in 0..100
    BY <1>1, <2>3
  <2> QED
    BY <1>2, <1>4, <2>4
<1> QED
  BY <1>3, <1>4

LEMMA LossNumberType ==
  ASSUME LossInv, NEW c \in Card, NEW n \in Nat,
         NEW over2s \in BOOLEAN, NEW over5s \in BOOLEAN,
         OnNewSequenceNumber(c, n, over2s, over5s)
  PROVE  seq' \in [Card -> SeqType]
<1> DEFINE s == SeqAfter(seq[c], n, over2s, over5s)
<1>1. seq \in [Card -> SeqType] /\ CardCounted(seq[c], numbers.now[c], numbers.upTo[c])
  BY DEF LossInv
<1>2. s \in SeqType
  <2>1. \E h, u : CardCounted(s, h, u)
    BY <1>1, CardStep
  <2> QED
    BY <2>1 DEF CardCounted
<1>3. seq' = [seq EXCEPT ![c] = s]
  BY DEF OnNewSequenceNumber
<1> HIDE DEF s
<1> QED
  BY <1>1, <1>2, <1>3

\* A packet number of card c.
LEMMA LossNumber ==
  ASSUME LossInv, NEW c \in Card, NEW n \in Nat, Card' = Card,
         NEW over2s \in BOOLEAN, NEW over5s \in BOOLEAN,
         OnNewSequenceNumber(c, n, over2s, over5s), lowest' \in -1..100
  PROVE  LossInv'
<1> DEFINE s == SeqAfter(seq[c], n, over2s, over5s)
           a == Append(numbers.now[c], n)
           over == Counts(seq[c], n)
                   /\ WindowOver([seq[c] EXCEPT !.received = @ + 1], over2s, over5s)
           now == IF over THEN <<n>> ELSE a
           upTo == IF over THEN a ELSE numbers.upTo[c]
<1>1. /\ seq \in [Card -> SeqType]
      /\ numbers \in [now : [Card -> Seq(Number)], upTo : [Card -> Seq(Number)]]
      /\ \A k \in Card : CardCounted(seq[k], numbers.now[k], numbers.upTo[k])
  BY DEF LossInv
<1>2. CardCounted(s, now, upTo)
  <2>1. CASE over
    <3>1. CardCounted(s, <<n>>, a)
      BY <2>1, <1>1, CardStep
    <3> QED
      BY <3>1, <2>1
  <2>2. CASE ~over
    <3>1. CardCounted(s, a, numbers.upTo[c])
      BY <2>2, <1>1, CardStep
    <3> QED
      BY <3>1, <2>2
  <2> QED
    BY <2>1, <2>2
<1>3. seq' = [seq EXCEPT ![c] = s]
  BY DEF OnNewSequenceNumber
<1>4. numbers' = [now |-> [numbers.now EXCEPT ![c] = now],
                  upTo |-> [numbers.upTo EXCEPT ![c] = upTo]]
  <2>1. CASE over
    BY <2>1 DEF OnNewSequenceNumber
  <2>2. CASE ~over
    <3>1. numbers' = [numbers EXCEPT !.now[c] = a]
      BY <2>2 DEF OnNewSequenceNumber
    <3>2. [numbers.upTo EXCEPT ![c] = numbers.upTo[c]] = numbers.upTo
      BY <1>1
    <3> HIDE DEF a, over
    <3>3. numbers' = [now |-> [numbers.now EXCEPT ![c] = a], upTo |-> numbers.upTo]
      BY <1>1, <3>1
    <3> QED
      BY <3>2, <3>3, <2>2
  <2> QED
    BY <2>1, <2>2
<1> HIDE DEF s, now, upTo
<1>5. s \in SeqType /\ now \in Seq(Number) /\ upTo \in Seq(Number)
  BY <1>2 DEF CardCounted
<1>6. seq' \in [Card -> SeqType]
  BY <1>1, <1>3, <1>5
<1>7. /\ numbers' \in [now : [Card -> Seq(Number)], upTo : [Card -> Seq(Number)]]
      /\ numbers'.now = [numbers.now EXCEPT ![c] = now]
      /\ numbers'.upTo = [numbers.upTo EXCEPT ![c] = upTo]
  BY <1>1, <1>4, <1>5
<1>8. ASSUME NEW k \in Card
      PROVE  CardCounted(seq'[k], numbers'.now[k], numbers'.upTo[k])
  <2>1. CASE k = c
    <3>1. seq'[k] = s /\ numbers'.now[k] = now /\ numbers'.upTo[k] = upTo
      BY <2>1, <1>1, <1>3, <1>7
    <3> QED
      BY <3>1, <1>2
  <2>2. CASE k # c
    <3>1. /\ seq'[k] = seq[k] /\ numbers'.now[k] = numbers.now[k]
          /\ numbers'.upTo[k] = numbers.upTo[k]
      BY <2>2, <1>1, <1>3, <1>7
    <3> QED
      BY <3>1, <1>1
  <2> QED
    BY <2>1, <2>2
<1> QED
  BY <1>6, <1>7, <1>8 DEF LossInv

\* A reset breaks the window off, and nothing is reported.
LEMMA CardReset ==
  ASSUME NEW s, NEW now, NEW upTo, CardCounted(s, now, upTo)
  PROVE  CardCounted([s EXCEPT !.last = NoNumber, !.loss = -1], Broken(now), <<>>)
<1> DEFINE x == [s EXCEPT !.last = NoNumber, !.loss = -1]
           b == Broken(now)
<1>1. /\ s \in SeqType /\ now \in Seq(Number)
      /\ s.last = IF now = <<>> THEN NoNumber ELSE now[Len(now)]
      /\ CountedAs(now, s.received, s.missing)
  BY DEF CardCounted
<1>2. NoNumber \in Number
  BY DEF Number
<1>3. /\ x \in SeqType /\ x.last = NoNumber /\ x.received = s.received
      /\ x.missing = s.missing /\ x.loss = -1
  <2> DEFINE u == -1
  <2>1. u \in -1..100 /\ s.received \in Nat /\ s.missing \in Nat
    BY <1>1 DEF SeqType
  <2>2. x = [s EXCEPT !.last = NoNumber, !.loss = u]
    OBVIOUS
  <2> HIDE DEF x, u
  <2>3. x = [last |-> NoNumber, received |-> s.received, missing |-> s.missing, loss |-> u]
    BY <1>1, <2>2 DEF SeqType
  <2>4. /\ x \in SeqType /\ x.last = NoNumber /\ x.received = s.received
        /\ x.missing = s.missing /\ x.loss = u
    BY <1>2, <2>1, <2>3 DEF SeqType
  <2> QED
    BY <2>4 DEF u
<1>4. /\ b \in Seq(Number)
      /\ b # <<>> => b[Len(b)] = NoNumber
      /\ CountedAs(b, s.received, s.missing)
  <2>1. CASE now = <<>> \/ Last(now) = NoNumber
    <3>1. b = now
      BY <2>1 DEF Broken
    <3>2. now # <<>> => now[Len(now)] = NoNumber
      BY <2>1 DEF Last
    <3> HIDE DEF b
    <3> QED
      BY <1>1, <3>1, <3>2
  <2>2. CASE ~(now = <<>> \/ Last(now) = NoNumber)
    <3>1. b = Append(now, NoNumber)
      BY <2>2 DEF Broken
    <3>2. ~Follows(now, NoNumber)
      BY DEF Follows
    <3>3. CountedAs(Append(now, NoNumber), s.received, s.missing)
      BY <1>1, <1>2, <3>2, CountedAppend
    <3> HIDE DEF b
    <3>4. b \in Seq(Number) /\ b[Len(b)] = NoNumber
      BY <1>1, <1>2, <3>1, AppendProperties
    <3> QED
      BY <3>1, <3>3, <3>4
  <2> QED
    BY <2>1, <2>2
<1>5. <<>> \in Seq(Number) /\ ReportedLoss(<<>>) = -1
  BY DEF ReportedLoss
<1> HIDE DEF x, b
<1>6. CardCounted(x, b, <<>>)
  BY <1>3, <1>4, <1>5 DEF CardCounted
<1> QED
  BY <1>6 DEF x, b

\* What every handler of a frame has in common.
LEMMA HandleFacts ==
  ASSUME HandledInv, NEW c, NEW p, Handle(c, p)
  PROVE  /\ HandledInv' /\ Card' = Card
         /\ c \in Card /\ p.nonce \in Nat
<1>1. /\ handled.frames < traffic.max /\ traffic' = traffic
      /\ handled' = [handled EXCEPT !.frames = @ + 1]
      /\ c \in Card /\ p \in traffic.frames
  BY DEF Handle
<1>2. /\ traffic \in Traffic
      /\ handled \in [frames : 0..traffic.max, resets : 0..traffic.resets]
  BY DEF HandledInv
<1>3. traffic.max \in Nat /\ p.nonce \in Nat
  BY <1>1, <1>2, WBRxStatsAssumption DEF WBRxStatsAssumption
<1>4. handled.frames + 1 \in 0..traffic.max
  BY <1>1, <1>2, <1>3
<1>5. handled' \in [frames : 0..traffic.max, resets : 0..traffic.resets]
  <2> DEFINE f == handled.frames + 1
  <2>1. handled' = [handled EXCEPT !.frames = f]
    BY <1>1
  <2> HIDE DEF f
  <2> QED
    BY <1>2, <1>4, <2>1 DEF f
<1> QED
  BY <1>1, <1>2, <1>3, <1>5 DEF HandledInv, Card

LEMMA HandledStep ==
  ASSUME HandledInv, [Next]_vars
  PROVE  HandledInv' /\ Card' = Card
<1>1. CASE UNCHANGED <<traffic, handled>>
  BY <1>1 DEF HandledInv, Card
<1>2. ASSUME NEW c, NEW p, Handle(c, p)
      PROVE  HandledInv' /\ Card' = Card
  BY <1>2, HandleFacts
<1>3. CASE RxResetStats
  <2>1. /\ traffic' = traffic /\ handled.resets < traffic.resets
        /\ handled' = [handled EXCEPT !.resets = @ + 1]
    BY <1>3 DEF RxResetStats
  <2>2. /\ traffic \in Traffic
        /\ handled \in [frames : 0..traffic.max, resets : 0..traffic.resets]
    BY DEF HandledInv
  <2>3. traffic.resets \in Nat
    BY <2>2, WBRxStatsAssumption DEF WBRxStatsAssumption
  <2> DEFINE r == handled.resets + 1
  <2>4. r \in 0..traffic.resets
    BY <2>1, <2>2, <2>3
  <2>5. handled' = [handled EXCEPT !.resets = r]
    BY <2>1
  <2> HIDE DEF r
  <2>6. handled' \in [frames : 0..traffic.max, resets : 0..traffic.resets]
    BY <2>2, <2>4, <2>5
  <2> QED
    BY <2>1, <2>2, <2>6 DEF HandledInv, Card
<1>4. \A c, p : Discard(c, p) \/ ProcessSessionStreamPacket(c, p) \/ ProcessCommonStreamPacket(c, p)
                => Handle(c, p)
  BY DEF Discard, ProcessSessionStreamPacket, ProcessCommonStreamPacket
<1>5. RecalculatePollutionPerc \/ UNCHANGED vars => UNCHANGED <<traffic, handled>>
  BY DEF RecalculatePollutionPerc, linkVars, vars
<1> QED
  BY <1>1, <1>2, <1>3, <1>4, <1>5 DEF Next

LEMMA LossStep ==
  ASSUME HandledInv, LossInv, [Next]_vars
  PROVE  LossInv'
<1>1. Card' = Card
  BY HandledStep
<1>2. CASE UNCHANGED lossVars
  BY <1>1, <1>2 DEF lossVars, LossInv
<1>3. ASSUME NEW c \in Card, NEW p \in traffic.frames, ProcessSessionStreamPacket(c, p)
      PROVE  LossInv'
  <2>1. lowest' = lowest /\ Handle(c, p)
    BY <1>3 DEF ProcessSessionStreamPacket
  <2>2. lowest' \in -1..100
    BY <2>1 DEF LossInv
  <2>3. p.nonce \in Nat
    BY <2>1, HandleFacts
  <2>4. CASE OpensSession(p)
    <3>1. PICK over2s \in Over("loss"), over5s \in Over("loss") :
            OnNewSequenceNumber(c, p.nonce, over2s, over5s)
      BY <1>3, <2>4 DEF ProcessSessionStreamPacket
    <3>2. over2s \in BOOLEAN /\ over5s \in BOOLEAN
      BY OverBoolean
    <3> QED
      BY <1>1, <2>2, <2>3, <3>1, <3>2, LossNumber
  <2>5. CASE ~OpensSession(p)
    <3>1. seq' = seq /\ numbers' = numbers
      BY <1>3, <2>5 DEF ProcessSessionStreamPacket
    <3> QED
      BY <1>1, <2>1, <3>1 DEF LossInv
  <2> QED
    BY <2>4, <2>5
<1>4. ASSUME NEW c \in Card, NEW p \in traffic.frames, ProcessCommonStreamPacket(c, p)
      PROVE  LossInv'
  <2>1. Handle(c, p) /\ lowest' = LowestLoss(seq')
    BY <1>4 DEF ProcessCommonStreamPacket
  <2>2. p.nonce \in Nat
    BY <2>1, HandleFacts
  <2>3. PICK over2s \in Over("loss"), over5s \in Over("loss") :
          OnNewSequenceNumber(c, p.nonce, over2s, over5s)
    BY <1>4 DEF ProcessCommonStreamPacket
  <2>4. over2s \in BOOLEAN /\ over5s \in BOOLEAN
    BY OverBoolean
  <2>5. seq' \in [Card -> SeqType]
    BY <2>2, <2>3, <2>4, LossNumberType
  <2>6. lowest' \in -1..100
    BY <2>1, <2>5, LowestRange
  <2> QED
    BY <1>1, <2>2, <2>3, <2>4, <2>6, LossNumber
<1>5. CASE RxResetStats
  <2>1. /\ seq' = [c \in Card |-> [seq[c] EXCEPT !.last = NoNumber, !.loss = -1]]
        /\ lowest' = -1
        /\ numbers' = [now |-> [c \in Card |-> Broken(numbers.now[c])],
                       upTo |-> [c \in Card |-> <<>>]]
    BY <1>5 DEF RxResetStats
  <2>2. \A c \in Card : CardCounted(seq'[c], numbers'.now[c], numbers'.upTo[c])
    BY <2>1, CardReset DEF LossInv
  <2>3. \A c \in Card : /\ seq'[c] \in SeqType /\ numbers'.now[c] \in Seq(Number)
                        /\ numbers'.upTo[c] \in Seq(Number)
    BY <2>2 DEF CardCounted
  <2>4. seq' \in [Card -> SeqType]
    BY <2>1, <2>3
  <2>5. numbers' \in [now : [Card -> Seq(Number)], upTo : [Card -> Seq(Number)]]
    BY <2>1, <2>3
  <2>6. lowest' \in -1..100
    <3>1. lowest' = -1
      BY <1>5 DEF RxResetStats
    <3>2. -1 \in -1..100
      OBVIOUS
    <3> QED
      BY <3>1, <3>2
  <2> QED
    BY <1>1, <2>2, <2>4, <2>5, <2>6 DEF LossInv
<1>6. \A c, p : Discard(c, p) => UNCHANGED lossVars
  BY DEF Discard
<1>7. RecalculatePollutionPerc \/ UNCHANGED vars => UNCHANGED lossVars
  BY DEF RecalculatePollutionPerc, vars, lossVars
<1> QED
  BY <1>2, <1>3, <1>4, <1>5, <1>6, <1>7 DEF Next

-----------------------------------------------------------------------------
(* The transmitting card *)

\* The cards are numbered.
LEMMA CardNumbers ==
  ASSUME HandledInv
  PROVE  /\ Cardinality(Card) \in Nat \ {0}
         /\ Card = 0..(Cardinality(Card) - 1)
<1>1. /\ Card # {} /\ IsFiniteSet(Card)
      /\ Card = 0..Cardinality(Card) - 1
  BY WBRxStatsAssumption DEF WBRxStatsAssumption, HandledInv, Card
<1>2. Cardinality(Card) \in Nat
  BY <1>1, FS_CardinalityType
<1>3. Cardinality(Card) # 0
  BY <1>1, FS_EmptySet
<1> QED
  BY <1>1, <1>2, <1>3

\* The best card after the first n of them, as BestCard computes it.
BestTo(delta, curr, m, f) ==
  f = [n \in 0..m |->
         IF n = 0 THEN curr
         ELSE IF delta[n - 1] > delta[f[n - 1]] + SwitchThreshold THEN n - 1 ELSE f[n - 1]]

\* There is such a function, although BestCard only chooses one.
LEMMA BestExists ==
  ASSUME NEW delta, NEW curr, NEW m \in Nat
  PROVE  \E f : BestTo(delta, curr, m, f)
<1> DEFINE Bad == {k \in Nat : ~\E f : BestTo(delta, curr, k, f)}
           best(f, n) == IF delta[n - 1] > delta[f[n - 1]] + SwitchThreshold
                         THEN n - 1 ELSE f[n - 1]
<1>1. SUFFICES ASSUME Bad # {} PROVE FALSE
  BY <1>1
<1>2. PICK k \in Bad : \A x \in Bad : k <= x
  <2>1. Bad \subseteq Nat
    OBVIOUS
  <2> HIDE DEF Bad
  <2> QED
    BY <2>1, <1>1, LeastNatural
<1>3. k \in Nat /\ ~\E f : BestTo(delta, curr, k, f)
  BY <1>2
<1>4. CASE k = 0
  <2> DEFINE f == [n \in 0..0 |-> curr]
  <2>1. f = [n \in 0..0 |-> IF n = 0 THEN curr ELSE best(f, n)]
    OBVIOUS
  <2> HIDE DEF f
  <2> QED
    BY <2>1, <1>3, <1>4 DEF BestTo
<1>5. CASE k # 0
  <2>1. k - 1 \in Nat /\ ~(k <= k - 1)
    BY <1>3, <1>5
  <2>2. k - 1 \notin Bad
    BY <1>2, <2>1
  <2>3. PICK f : BestTo(delta, curr, k - 1, f)
    BY <2>1, <2>2
  <2> DEFINE g == [n \in 0..k |-> IF n = k THEN best(f, k) ELSE f[n]]
  <2>4. ASSUME NEW n \in 0..k
        PROVE  g[n] = IF n = 0 THEN curr ELSE best(g, n)
    <3>1. k \in 0..k /\ k - 1 \in 0..k /\ k - 1 # k
      BY <1>3, <2>1
    <3>2. g[k] = best(f, k) /\ g[k - 1] = f[k - 1]
      BY <3>1
    <3>3. CASE n = k
      BY <3>2, <3>3, <1>5
    <3>4. CASE n # k
      <4>1. n \in 0..(k - 1)
        BY <3>4, <1>3
      <4>2. f[n] = IF n = 0 THEN curr ELSE best(f, n)
        BY <4>1, <2>3 DEF BestTo
      <4>3. n # 0 => n - 1 \in 0..k /\ n - 1 # k
        BY <4>1, <1>3
      <4>4. g[n] = f[n] /\ (n # 0 => g[n - 1] = f[n - 1])
        BY <3>4, <4>3
      <4> QED
        BY <4>2, <4>4
    <3> QED
      BY <3>3, <3>4
  <2>5. g = [n \in 0..k |-> IF n = 0 THEN curr ELSE best(g, n)]
    <3>1. g = [n \in 0..k |-> g[n]]
      OBVIOUS
    <3> HIDE DEF g, best
    <3> QED
      BY <2>4, <3>1
  <2> HIDE DEF g
  <2> QED
    BY <2>5, <1>3 DEF BestTo
<1> QED
  BY <1>4, <1>5

\* A card that is best after the first n: none of them is ahead of it by more
\* than the threshold, and the current one is only left for one that far ahead.
BestOf(delta, curr, n, b) ==
  /\ b \in Card /\ delta[b] >= delta[curr]
  /\ b # curr => delta[b] > delta[curr] + SwitchThreshold
  /\ \A k \in 0..(n - 1) : delta[k] <= delta[b] + SwitchThreshold

\* One more card keeps that.
LEMMA BestNext ==
  ASSUME HandledInv, NEW delta \in [Card -> Int], NEW curr \in Card, NEW n \in Nat \ {0},
         n - 1 \in Card, NEW b, BestOf(delta, curr, n - 1, b)
  PROVE  BestOf(delta, curr, n,
                IF delta[n - 1] > delta[b] + SwitchThreshold THEN n - 1 ELSE b)
<1>1. SwitchThreshold \in Nat
  BY WBRxStatsAssumption DEF WBRxStatsAssumption
<1>2. /\ delta[n - 1] \in Int /\ delta[curr] \in Int /\ b \in Card /\ delta[b] \in Int
      /\ delta[b] >= delta[curr]
  BY DEF BestOf
<1>3. \A k \in 0..(n - 1) : k = n - 1 \/ k \in 0..(n - 1 - 1)
  OBVIOUS
<1>4. \A k \in 0..(n - 1) : k \in Card
  BY CardNumbers
<1>5. \A k \in 0..(n - 1 - 1) : delta[k] <= delta[b] + SwitchThreshold
  BY DEF BestOf
<1>6. CASE delta[n - 1] > delta[b] + SwitchThreshold
  <2>1. \A k \in 0..(n - 1) : delta[k] <= delta[n - 1] + SwitchThreshold
    <3>1. SUFFICES ASSUME NEW k \in 0..(n - 1)
                   PROVE  delta[k] <= delta[n - 1] + SwitchThreshold
      OBVIOUS
    <3>2. delta[k] \in Int
      BY <1>4
    <3>3. k # n - 1 => delta[k] <= delta[b] + SwitchThreshold
      BY <1>3, <1>5
    <3>4. CASE k = n - 1
      BY <3>4, <1>1, <1>2
    <3>5. CASE k # n - 1
      <4> DEFINE x == delta[k]
                 y == delta[b]
                 z == delta[n - 1]
      <4>1. x \in Int /\ y \in Int /\ z \in Int /\ x <= y + SwitchThreshold
            /\ z > y + SwitchThreshold
        BY <3>2, <3>3, <3>5, <1>2, <1>6
      <4> HIDE DEF x, y, z
      <4>2. x <= z + SwitchThreshold
        BY <4>1, <1>1
      <4> QED
        BY <4>2 DEF x, z
    <3> QED
      BY <3>4, <3>5
  <2>2. delta[n - 1] >= delta[curr] /\ delta[n - 1] > delta[curr] + SwitchThreshold
    <3> DEFINE x == delta[curr]
               y == delta[b]
               z == delta[n - 1]
    <3>1. x \in Int /\ y \in Int /\ z \in Int /\ y >= x /\ z > y + SwitchThreshold
      BY <1>2, <1>6
    <3> HIDE DEF x, y, z
    <3>2. z >= x /\ z > x + SwitchThreshold
      BY <3>1, <1>1
    <3> QED
      BY <3>2 DEF x, z
  <2>3. BestOf(delta, curr, n, n - 1)
    BY <2>1, <2>2 DEF BestOf
  <2> QED
    BY <2>3, <1>6
<1>7. CASE ~(delta[n - 1] > delta[b] + SwitchThreshold)
  <2>1. delta[n - 1] <= delta[b] + SwitchThreshold
    BY <1>7, <1>1, <1>2
  <2>2. \A k \in 0..(n - 1) : delta[k] <= delta[b] + SwitchThreshold
    BY <2>1, <1>3, <1>5
  <2>3. BestOf(delta, curr, n, b)
    BY <2>2 DEF BestOf
  <2> QED
    BY <2>3, <1>7
<1> QED
  BY <1>6, <1>7

\* The card chosen is the best of all.
LEMMA BestChosen ==
  ASSUME HandledInv, NEW delta \in [Card -> Int], NEW curr \in Card
  PROVE  BestOf(delta, curr, Cardinality(Card), BestCard(delta, curr))
<1> DEFINE N == Cardinality(Card)
<1>1. N \in Nat \ {0} /\ Card = 0..(N - 1)
  BY CardNumbers
<1>2. BestCard(delta, curr) = (CHOOSE f : BestTo(delta, curr, N, f))[N]
  BY DEF BestCard, BestTo
<1>3. \E f : BestTo(delta, curr, N, f)
  BY <1>1, BestExists
<1> HIDE DEF N
<1>4. PICK f : BestTo(delta, curr, N, f) /\ BestCard(delta, curr) = f[N]
  BY <1>2, <1>3
<1> DEFINE Bad == {n \in 0..N : ~BestOf(delta, curr, n, f[n])}
<1>5. Bad = {}
  <2>1. SUFFICES ASSUME Bad # {} PROVE FALSE
    BY <2>1
  <2>2. PICK n \in Bad : \A x \in Bad : n <= x
    <3>1. Bad \subseteq Nat
      OBVIOUS
    <3> HIDE DEF Bad
    <3> QED
      BY <3>1, <2>1, LeastNatural
  <2>3. n \in 0..N /\ ~BestOf(delta, curr, n, f[n])
    BY <2>2
  <2>4. CASE n = 0
    <3>1. f[n] = curr
      BY <1>1, <1>4, <2>3, <2>4 DEF BestTo
    <3>2. delta[curr] \in Int
      OBVIOUS
    <3>3. BestOf(delta, curr, 0, curr)
      <4>1. 0..(0 - 1) = {}
        OBVIOUS
      <4> QED
        BY <3>2, <4>1 DEF BestOf
    <3> QED
      BY <2>3, <2>4, <3>1, <3>3
  <2>5. CASE n # 0
    <3>1. n - 1 \in 0..N /\ n \in Nat \ {0} /\ ~(n <= n - 1) /\ n - 1 \in Card
      BY <2>3, <2>5, <1>1
    <3>2. n - 1 \notin Bad
      BY <2>2, <3>1
    <3>3. BestOf(delta, curr, n - 1, f[n - 1])
      BY <3>1, <3>2
    <3>4. f[n] = IF delta[n - 1] > delta[f[n - 1]] + SwitchThreshold THEN n - 1 ELSE f[n - 1]
      BY <1>4, <2>3, <2>5 DEF BestTo
    <3>5. BestOf(delta, curr, n,
                 IF delta[n - 1] > delta[f[n - 1]] + SwitchThreshold THEN n - 1 ELSE f[n - 1])
      BY <3>1, <3>3, BestNext
    <3> QED
      BY <2>3, <3>4, <3>5
  <2> QED
    BY <2>4, <2>5
<1>6. N \in 0..N
  BY <1>1
<1> QED
  BY <1>4, <1>5, <1>6 DEF N

\* A comparison of what the cards heard justifies the card it chooses.
LEMMA SwitchStep ==
  ASSUME HandledInv, TxInv, Card' = Card, NEW c \in Card, NEW intervalOver \in BOOLEAN,
         SwitchTxCardIfNeeded(c, intervalOver)
  PROVE  TxInv'
<1> DEFINE valid == [tx.valid EXCEPT ![c] = @ + 1]
           now == [heard.now EXCEPT ![c] = @ + 1]
           delta == [k \in Card |-> valid[k] - tx.last[k]]
           best == BestCard(delta, tx.curr)
           compares == Cardinality(Card) > 1 /\ intervalOver
<1>1. /\ tx \in [curr : Card, valid : [Card -> Nat], last : [Card -> Nat]]
      /\ heard \in [now : [Card -> Nat], upTo : [Card -> Nat], from : Card,
                    reset : BOOLEAN, upToReset : BOOLEAN]
      /\ ~heard.reset => \A k \in Card : tx.valid[k] - tx.last[k] = heard.now[k]
      /\ TxCardJustified
  BY DEF TxInv
<1>2. /\ tx.curr \in Card /\ tx.valid \in [Card -> Nat] /\ tx.last \in [Card -> Nat]
      /\ heard.now \in [Card -> Nat]
  BY <1>1
<1>3. valid \in [Card -> Nat] /\ now \in [Card -> Nat] /\ delta \in [Card -> Int]
  BY <1>2
<1>4. ~heard.reset => \A k \in Card : valid[k] - tx.last[k] = now[k]
  <2> SUFFICES ASSUME ~heard.reset, NEW k \in Card
               PROVE  valid[k] - tx.last[k] = now[k]
    OBVIOUS
  <2>1. tx.valid[k] - tx.last[k] = heard.now[k]
    BY <1>1
  <2>2. tx.valid[k] \in Nat /\ tx.last[k] \in Nat /\ heard.now[k] \in Nat
    BY <1>2
  <2>3. CASE k = c
    <3>1. valid[k] = tx.valid[k] + 1 /\ now[k] = heard.now[k] + 1
      BY <2>3, <1>2
    <3> QED
      BY <2>1, <2>2, <3>1
  <2>4. CASE k # c
    <3>1. valid[k] = tx.valid[k] /\ now[k] = heard.now[k]
      BY <2>4, <1>2
    <3> QED
      BY <2>1, <3>1
  <2> QED
    BY <2>3, <2>4
<1>5. ~heard.reset => \A k \in Card : delta[k] = now[k]
  BY <1>4
<1>6. BestOf(delta, tx.curr, Cardinality(Card), best)
  BY <1>2, <1>3, BestChosen
<1>7. /\ compares => /\ tx' = [curr |-> best, valid |-> valid, last |-> valid]
                     /\ heard' = [now |-> Zero(Card), upTo |-> now, from |-> tx.curr,
                                  reset |-> FALSE, upToReset |-> heard.reset]
      /\ ~compares => /\ tx' = [tx EXCEPT !.valid = valid]
                      /\ heard' = [heard EXCEPT !.now = now]
  BY DEF SwitchTxCardIfNeeded
<1> HIDE DEF valid, now, delta, best, compares
<1>8. best \in Card
  BY <1>6 DEF BestOf
<1>9. CASE compares
  <2>1. /\ tx' = [curr |-> best, valid |-> valid, last |-> valid]
        /\ heard' = [now |-> Zero(Card), upTo |-> now, from |-> tx.curr,
                     reset |-> FALSE, upToReset |-> heard.reset]
    BY <1>7, <1>9
  <2>2. Zero(Card) \in [Card -> Nat] /\ \A k \in Card : Zero(Card)[k] = 0
    BY DEF Zero
  <2>3. heard.reset \in BOOLEAN
    BY <1>1
  <2>4. /\ tx' \in [curr : Card, valid : [Card -> Nat], last : [Card -> Nat]]
        /\ tx'.curr = best /\ tx'.valid = valid /\ tx'.last = valid
    BY <1>3, <1>8, <2>1
  <2>5. /\ heard' \in [now : [Card -> Nat], upTo : [Card -> Nat], from : Card,
                       reset : BOOLEAN, upToReset : BOOLEAN]
        /\ heard'.now = Zero(Card) /\ heard'.upTo = now /\ heard'.from = tx.curr
        /\ heard'.upToReset = heard.reset
    BY <1>2, <1>3, <2>1, <2>2, <2>3
  <2>6. \A k \in Card : tx'.valid[k] - tx'.last[k] = heard'.now[k]
    <3> SUFFICES ASSUME NEW k \in Card PROVE valid[k] - valid[k] = 0
      BY <2>2, <2>4, <2>5
    <3> QED
      BY <1>3
  <2>7. ~heard.reset =>
          /\ \A k \in Card : now[k] <= now[best] + SwitchThreshold
          /\ best # tx.curr => now[best] > now[tx.curr] + SwitchThreshold
    <3> SUFFICES ASSUME ~heard.reset
                 PROVE  /\ \A k \in Card : now[k] <= now[best] + SwitchThreshold
                        /\ best # tx.curr => now[best] > now[tx.curr] + SwitchThreshold
      OBVIOUS
    <3>1. \A k \in Card : delta[k] = now[k]
      BY <1>5
    <3>2. \A k \in Card : delta[k] <= delta[best] + SwitchThreshold
      BY <1>6, CardNumbers DEF BestOf
    <3>3. best # tx.curr => delta[best] > delta[tx.curr] + SwitchThreshold
      BY <1>6 DEF BestOf
    <3> QED
      BY <3>1, <3>2, <3>3, <1>2, <1>8
  <2>8. TxCardJustified'
    BY <1>1, <2>4, <2>5, <2>7 DEF TxCardJustified
  <2> QED
    BY <2>4, <2>5, <2>6, <2>8 DEF TxInv
<1>10. CASE ~compares
  <2>1. tx' = [tx EXCEPT !.valid = valid] /\ heard' = [heard EXCEPT !.now = now]
    BY <1>7, <1>10
  <2>2. /\ tx' \in [curr : Card, valid : [Card -> Nat], last : [Card -> Nat]]
        /\ tx'.curr = tx.curr /\ tx'.valid = valid /\ tx'.last = tx.last
    BY <1>1, <1>3, <2>1
  <2>3. /\ heard' \in [now : [Card -> Nat], upTo : [Card -> Nat], from : Card,
                       reset : BOOLEAN, upToReset : BOOLEAN]
        /\ heard'.now = now /\ heard'.upTo = heard.upTo /\ heard'.from = heard.from
        /\ heard'.reset = heard.reset /\ heard'.upToReset = heard.upToReset
    BY <1>1, <1>3, <2>1
  <2>4. TxCardJustified'
    BY <1>1, <2>2, <2>3 DEF TxCardJustified
  <2> QED
    BY <1>4, <2>2, <2>3, <2>4 DEF TxInv
<1> QED
  BY <1>9, <1>10

LEMMA TxStep ==
  ASSUME HandledInv, TxInv, [Next]_vars
  PROVE  TxInv'
<1>1. Card' = Card
  BY HandledStep
<1>2. CASE UNCHANGED txVars
  BY <1>1, <1>2 DEF txVars, TxInv, TxCardJustified
<1>3. ASSUME NEW c \in Card, NEW p \in traffic.frames, ProcessCommonStreamPacket(c, p)
      PROVE  TxInv'
  <2>1. PICK intervalOver \in Over("card") : SwitchTxCardIfNeeded(c, intervalOver)
    BY <1>3 DEF ProcessCommonStreamPacket
  <2>2. intervalOver \in BOOLEAN
    BY OverBoolean
  <2> QED
    BY <1>1, <2>1, <2>2, SwitchStep
<1>4. CASE RxResetStats
  <2>1. /\ tx' = [tx EXCEPT !.valid = Zero(Card)]
        /\ heard' = [heard EXCEPT !.now = Zero(Card), !.reset = TRUE]
    BY <1>4 DEF RxResetStats
  <2>2. Zero(Card) \in [Card -> Nat]
    BY DEF Zero
  <2>3. /\ tx' \in [curr : Card, valid : [Card -> Nat], last : [Card -> Nat]]
        /\ tx'.curr = tx.curr
    BY <2>1, <2>2 DEF TxInv
  <2>4. /\ heard' \in [now : [Card -> Nat], upTo : [Card -> Nat], from : Card,
                       reset : BOOLEAN, upToReset : BOOLEAN]
        /\ heard'.upTo = heard.upTo /\ heard'.from = heard.from
        /\ heard'.reset = TRUE /\ heard'.upToReset = heard.upToReset
    BY <2>1, <2>2 DEF TxInv
  <2>5. TxCardJustified'
    BY <1>1, <2>3, <2>4 DEF TxCardJustified, TxInv
  <2> QED
    BY <1>1, <2>3, <2>4, <2>5 DEF TxInv
<1>5. \A c, p : Discard(c, p) \/ ProcessSessionStreamPacket(c, p) => UNCHANGED txVars
  BY DEF Discard, ProcessSessionStreamPacket
<1>6. RecalculatePollutionPerc \/ UNCHANGED vars => UNCHANGED txVars
  BY DEF RecalculatePollutionPerc, vars, txVars
<1> QED
  BY <1>2, <1>3, <1>4, <1>5, <1>6 DEF Next

-----------------------------------------------------------------------------
(* The invariant *)

LEMMA InitIInv == Init => IInv
<1> SUFFICES ASSUME Init PROVE IInv
  OBVIOUS
<1>1. HandledInv
  <2>1. traffic \in Traffic /\ handled = [frames |-> 0, resets |-> 0]
    BY DEF Init
  <2>2. traffic.max \in Nat /\ traffic.resets \in Nat
    BY <2>1, WBRxStatsAssumption DEF WBRxStatsAssumption
  <2>3. 0 \in 0..traffic.max /\ 0 \in 0..traffic.resets
    BY <2>2
  <2> QED
    BY <2>1, <2>3 DEF HandledInv
<1>2. PollutionInv
  BY DEF Init, PollutionInv, PollutionIsShare, AirType, NoAir
<1>3. KeyInv
  BY DEF Init, KeyInv, WrongKeyTruthful, SessionType, NoSession
<1>4. LossInv
  <2> DEFINE s == [last |-> NoNumber, received |-> 0, missing |-> 0, loss |-> -1]
  <2>1. /\ seq = [c \in Card |-> s] /\ lowest = -1
        /\ numbers = [now |-> [c \in Card |-> <<>>], upTo |-> [c \in Card |-> <<>>]]
    BY DEF Init, NewSeq
  <2>2. -1 \in -1..100 /\ NoNumber \in Number
    BY DEF Number
  <2>3. /\ s \in SeqType /\ s.last = NoNumber /\ s.received = 0 /\ s.missing = 0
        /\ s.loss = -1
    BY <2>2 DEF SeqType
  <2> HIDE DEF s
  <2>4. <<>> \in Seq(Number) /\ ReportedLoss(<<>>) = -1
    BY DEF ReportedLoss
  <2>5. CardCounted(s, <<>>, <<>>)
    BY <2>3, <2>4, CountedFirst DEF CardCounted
  <2>6. \A c \in Card : CardCounted(seq[c], numbers.now[c], numbers.upTo[c])
    BY <2>1, <2>5
  <2>7. seq \in [Card -> SeqType] /\ lowest \in -1..100
    BY <2>1, <2>2, <2>3
  <2>8. numbers \in [now : [Card -> Seq(Number)], upTo : [Card -> Seq(Number)]]
    BY <2>1, <2>4
  <2> QED
    BY <2>6, <2>7, <2>8 DEF LossInv
<1>5. TxInv
  <2>1. /\ tx = [curr |-> 0, valid |-> Zero(Card), last |-> Zero(Card)]
        /\ heard = [now |-> Zero(Card), upTo |-> Zero(Card), from |-> 0,
                    reset |-> FALSE, upToReset |-> FALSE]
    BY DEF Init
  <2>2. 0 \in Card
    BY <1>1, CardNumbers
  <2>3. Zero(Card) \in [Card -> Nat] /\ \A k \in Card : Zero(Card)[k] = 0
    BY DEF Zero
  <2>4. SwitchThreshold \in Nat
    BY WBRxStatsAssumption DEF WBRxStatsAssumption
  <2>5. TxCardJustified
    BY <2>1, <2>2, <2>3, <2>4 DEF TxCardJustified
  <2>6. \A k \in Card : tx.valid[k] - tx.last[k] = heard.now[k]
    BY <2>1, <2>3
  <2>7. tx \in [curr : Card, valid : [Card -> Nat], last : [Card -> Nat]]
    BY <2>1, <2>2, <2>3
  <2>8. heard \in [now : [Card -> Nat], upTo : [Card -> Nat], from : Card,
                   reset : BOOLEAN, upToReset : BOOLEAN]
    BY <2>1, <2>2, <2>3
  <2> QED
    BY <2>5, <2>6, <2>7, <2>8 DEF TxInv
<1> QED
  BY <1>1, <1>2, <1>3, <1>4, <1>5 DEF IInv

LEMMA NextIInv == IInv /\ [Next]_vars => IInv'
BY HandledStep, PollutionStep, KeyStep, LossStep, TxStep DEF IInv

\* Type correctness: a percentage is one, a count a count, the transmitting card
\* one of the cards.
THEOREM TypeCorrect == Spec => []TypeOK
<1>1. IInv => TypeOK
  <2> SUFFICES ASSUME IInv PROVE TypeOK
    OBVIOUS
  <2>1. handled.frames \in 0..traffic.max /\ handled.resets \in 0..traffic.resets
    BY DEF IInv, HandledInv
  <2>2. pollution.openhd \in 0..pollution.total
    <3>1. /\ pollution.total = air.now.foreign + air.now.wb /\ pollution.openhd = air.now.wb
          /\ air.now.foreign \in Nat /\ air.now.wb \in Nat
      BY DEF IInv, PollutionInv, AirType
    <3> QED
      BY <3>1
  <2>3. pollution.perc \in 0..100
    <3> DEFINE f == air.upTo.foreign
               w == air.upTo.wb
    <3>1. /\ f \in Nat /\ w \in Nat
          /\ pollution.perc = IF f + w = 0 THEN 0 ELSE Percent(f, f + w)
      BY DEF IInv, PollutionInv, AirType, PollutionIsShare
    <3> HIDE DEF f, w
    <3>2. CASE f + w = 0
      BY <3>1, <3>2
    <3>3. CASE f + w # 0
      <4>1. f + w \in Nat \ {0} /\ f <= f + w
        BY <3>1, <3>3
      <4> QED
        BY <3>1, <3>3, <4>1, PercentRange
    <3> QED
      BY <3>2, <3>3
  <2>4. wrongKey.valid \in Nat /\ wrongKey.invalid \in Nat /\ wrongKey.mismatch \in BOOLEAN
    BY DEF IInv, KeyInv
  <2>5. /\ lowest \in -1..100
        /\ \A c \in Card : /\ seq[c].loss \in -1..100 /\ seq[c].received \in Nat
                           /\ seq[c].missing \in Nat /\ seq[c].last \in Nat \cup {NoNumber}
    BY DEF IInv, LossInv, SeqType, Number
  <2>6. tx.curr \in Card /\ \A c \in Card : tx.valid[c] \in Nat /\ tx.last[c] \in Nat
    BY DEF IInv, TxInv
  <2> QED
    BY <2>1, <2>2, <2>3, <2>4, <2>5, <2>6 DEF TypeOK
<1> QED
  BY InitIInv, NextIInv, <1>1, PTL DEF Spec

\* WBTxRx.h:233: the link pollution shown is the share of foreign packets among
\* those card 0 heard in the last interval.
THEOREM PollutionIsShareAlways == Spec => []PollutionIsShare
<1>1. IInv => PollutionIsShare
  BY DEF IInv, PollutionInv
<1> QED
  BY InitIInv, NextIInv, <1>1, PTL DEF Spec

\* A key mismatch is shown just when the last interval had session packets and
\* none could be opened.
THEOREM WrongKeyTruthfulAlways == Spec => []WrongKeyTruthful
<1>1. IInv => WrongKeyTruthful
  BY DEF IInv, KeyInv
<1> QED
  BY InitIInv, NextIInv, <1>1, PTL DEF Spec

\* The loss shown for a card is the share of the numbers of its last window that
\* it did not receive, whatever restarts and resets come between.
THEOREM LossIsShareAlways == Spec => []LossIsShare
<1>1. IInv => LossIsShare
  BY DEF IInv, LossInv, CardCounted, ReportedLoss, LossIsShare
<1> QED
  BY InitIInv, NextIInv, <1>1, PTL DEF Spec

\* The transmitting card is given up only for one that heard more than the
\* threshold beyond it, and none is left that far ahead.
THEOREM TxCardJustifiedAlways == Spec => []TxCardJustified
<1>1. IInv => TxCardJustified
  BY DEF IInv, TxInv
<1> QED
  BY InitIInv, NextIInv, <1>1, PTL DEF Spec
=============================================================================
