---------------------------- MODULE WBTxRxProofs ----------------------------
(***************************************************************************)
(* Proofs about the link, for any number of cards, frames, restarts and      *)
(* resets.  A card hands frames on in the order they were sent, so the last  *)
(* number it saw belongs to the newest frame it handled; that and the        *)
(* numbers of a session being consecutive is what makes the loss count.      *)
(***************************************************************************)
EXTENDS WBTxRx, TLAPS, FiniteSetTheorems

FrameType == [key : Nat, nonce : Nat, data : BOOLEAN]

\* The order in which frames are sent.
Precedes(f, g) == f.key < g.key \/ (f.key = g.key /\ f.nonce <= g.nonce)

SenderOK ==
  /\ key = restarts + 1 /\ restarts \in 0..MaxRestarts
  /\ nonce \in Nat /\ due \in BOOLEAN /\ passive \in BOOLEAN /\ redundant \in BOOLEAN

\* Sessions follow each other, and their numbers are consecutive.
Consecutive(s, k, n) ==
  /\ \A i \in 1..Len(s) : s[i].key <= k
  /\ \A i, j \in 1..Len(s) : i <= j => s[i].key <= s[j].key
  /\ \A i, j \in 1..Len(s) : s[i].key = s[j].key => s[j].nonce - s[i].nonce = j - i
  /\ \A i \in 1..Len(s) : s[i].key = k => n - s[i].nonce = Len(s) + 1 - i

SentOK == sent \in Seq(FrameType) /\ Consecutive(sent, key, nonce)

\* Frames, all of them sent, in the order of sending, after those of H.
InOrderAfter(s, H) ==
  /\ \A i, j \in 1..Len(s) : i <= j => Precedes(s[i], s[j])
  /\ \A h \in H : \A i \in 1..Len(s) : Precedes(h, s[i])

\* l is the number of the newest frame of H.
IsLast(l, H) ==
  \/ l = NoNonce /\ H = {}
  \/ \E m \in H : l = m.nonce /\ \A h \in H : Precedes(h, m)

\* What a card holds and has handled.
CardOK(c) ==
  /\ captured[c] \in Seq(ToSet(sent))
  /\ handled[c] \subseteq ToSet(sent)
  /\ InOrderAfter(captured[c], handled[c])
  /\ IsLast(last[c], handled[c])

ReceiverOK ==
  /\ session \in 0..key /\ handler = session
  /\ \A d \in delivered : d.frame.key = d.told
  /\ ready \subseteq Card
  /\ captured \in [Card -> Seq(FrameType)] /\ handled \in [Card -> SUBSET FrameType]
  /\ last \in [Card -> Nat \cup {NoNonce}]
  /\ missing \in [Card -> Nat] /\ missingAtReset \in [Card -> Nat]

\* The inductive invariant.
IInv == SenderOK /\ SentOK /\ ReceiverOK /\ \A c \in Card : CardOK(c)

-----------------------------------------------------------------------------
(* The sender *)

\* The frames of session k that the next numbers from n on are given to.
Numbered(t, k, n) == \A i \in 1..Len(t) : t[i].key = k /\ t[i].nonce = n + i - 1

\* A step sends one or two frames of the session, with the next numbers.
LEMMA FramesFacts ==
  ASSUME SenderOK
  PROVE  /\ Frames \in Seq(FrameType) /\ Len(Frames) \in {1, 2}
         /\ Numbered(Frames, key, nonce)
<1>1. key \in Nat /\ nonce \in Nat /\ nonce + 1 \in Nat
  BY WBTxRxAssumption DEF SenderOK, WBTxRxAssumption
<1>2. \A n \in Nat : \A d \in BOOLEAN :
        Frame(n, d) \in FrameType /\ Frame(n, d).key = key /\ Frame(n, d).nonce = n
  BY <1>1 DEF Frame, FrameType
<1>3. CASE due
  <2> DEFINE f == Frame(nonce, FALSE)
             g == Frame(nonce + 1, TRUE)
  <2>1. Frames = <<f, g>>
    BY <1>3 DEF Frames
  <2>2. /\ f \in FrameType /\ f.key = key /\ f.nonce = nonce
        /\ g \in FrameType /\ g.key = key /\ g.nonce = nonce + 1
    BY <1>1, <1>2
  <2> HIDE DEF f, g
  <2>3. \A i \in 1..2 : i = 1 \/ i = 2
    OBVIOUS
  <2>4. Len(<<f, g>>) = 2 /\ <<f, g>>[1] = f /\ <<f, g>>[2] = g /\ <<f, g>> \in Seq(FrameType)
    BY <2>2
  <2> QED
    BY <1>1, <2>1, <2>2, <2>3, <2>4 DEF Numbered
<1>4. CASE ~due
  <2> DEFINE f == Frame(nonce, TRUE)
  <2>1. Frames = <<f>>
    BY <1>4 DEF Frames
  <2>2. f \in FrameType /\ f.key = key /\ f.nonce = nonce
    BY <1>1, <1>2
  <2> HIDE DEF f
  <2>3. \A i \in 1..1 : i = 1
    OBVIOUS
  <2>4. Len(<<f>>) = 1 /\ <<f>>[1] = f /\ <<f>> \in Seq(FrameType)
    BY <2>2
  <2> QED
    BY <1>1, <2>1, <2>2, <2>3, <2>4 DEF Numbered
<1> QED
  BY <1>3, <1>4 DEF SenderOK

\* Appending frames of the session with the next numbers keeps the numbering.
LEMMA ConsecutiveAppend ==
  ASSUME NEW s \in Seq(FrameType), NEW t \in Seq(FrameType), NEW k \in Nat, NEW n \in Nat,
         Consecutive(s, k, n),
         Numbered(t, k, n)
  PROVE  s \o t \in Seq(FrameType) /\ Consecutive(s \o t, k, n + Len(t))
<1> DEFINE u == s \o t
           a == Len(s)
           b == Len(t)
<1>1. /\ a \in Nat /\ b \in Nat /\ Len(u) = a + b /\ u \in Seq(FrameType)
      /\ \A i \in 1..a : u[i] = s[i]
      /\ \A i \in (a + 1)..(a + b) : u[i] = t[i - a]
  OBVIOUS
<1>2. /\ \A i \in 1..a : s[i] \in FrameType
      /\ \A i \in 1..b : t[i] \in FrameType
  OBVIOUS
<1>3. \A i \in 1..a : u[i].key = s[i].key /\ u[i].nonce = s[i].nonce
                      /\ s[i].key \in Nat /\ s[i].nonce \in Nat
  BY <1>1, <1>2 DEF FrameType
<1>4. \A i \in (a + 1)..(a + b) : u[i].key = k /\ u[i].nonce = n + (i - a) - 1
  <2> TAKE i \in (a + 1)..(a + b)
  <2>1. i - a \in 1..b
    BY <1>1
  <2> QED
    BY <1>1, <2>1 DEF Numbered
<1>5. /\ \A i \in 1..a : s[i].key <= k
      /\ \A i, j \in 1..a : i <= j => s[i].key <= s[j].key
      /\ \A i, j \in 1..a : s[i].key = s[j].key => s[j].nonce - s[i].nonce = j - i
      /\ \A i \in 1..a : s[i].key = k => n - s[i].nonce = a + 1 - i
  BY DEF Consecutive
<1>6. Len(u) = a + b /\ a \in Nat /\ b \in Nat
  BY <1>1
<1> HIDE DEF u, a, b
<1>7. \A i \in 1..(a + b) : i \in 1..a \/ i \in (a + 1)..(a + b)
  BY <1>6
<1>8. \A i \in 1..(a + b) : u[i].key <= k
  BY <1>3, <1>4, <1>5, <1>7
<1>9. ASSUME NEW i \in 1..(a + b), NEW j \in 1..(a + b)
      PROVE  /\ i <= j => u[i].key <= u[j].key
             /\ u[i].key = u[j].key => u[j].nonce - u[i].nonce = j - i
  <2> DEFINE x == u[i].nonce
             y == u[j].nonce
  <2>0. i \in Nat /\ j \in Nat
    BY <1>6
  <2>1. CASE i \in 1..a /\ j \in 1..a
    <3>1. u[i] = s[i] /\ u[j] = s[j]
      BY <1>1, <2>1 DEF u, a
    <3> QED
      BY <1>5, <2>1, <3>1
  <2>2. CASE i \in (a + 1)..(a + b) /\ j \in (a + 1)..(a + b)
    <3>1. u[i].key = k /\ u[j].key = k /\ x = n + (i - a) - 1 /\ y = n + (j - a) - 1
      BY <1>4, <2>2
    <3> HIDE DEF x, y
    <3>2. y - x = j - i
      BY <1>6, <2>0, <3>1
    <3> QED
      BY <3>1, <3>2 DEF x, y
  <2>3. CASE i \in 1..a /\ j \in (a + 1)..(a + b)
    <3>1. u[i].key <= k /\ u[i].key \in Nat /\ u[j].key = k /\ u[j].nonce = n + (j - a) - 1 /\ u[i].nonce \in Nat
      BY <1>3, <1>4, <1>5, <2>3
    <3>2. u[i].key = k => n - u[i].nonce = a + 1 - i
      BY <1>3, <1>5, <2>3
    <3>3. i <= j => u[i].key <= u[j].key
      BY <3>1
    <3>4. u[i].key = u[j].key => u[j].nonce - u[i].nonce = j - i
      <4>1. SUFFICES ASSUME u[i].key = u[j].key PROVE y - x = j - i
        OBVIOUS
      <4>2. x \in Nat /\ y = n + (j - a) - 1 /\ n - x = a + 1 - i
        BY <3>1, <3>2, <4>1
      <4> HIDE DEF x, y
      <4> QED
        BY <1>6, <2>0, <4>2
    <3> QED
      BY <3>3, <3>4
  <2>4. CASE i \in (a + 1)..(a + b) /\ j \in 1..a
    <3>1. u[j].key <= k /\ u[j].key \in Nat /\ u[i].key = k /\ u[i].nonce = n + (i - a) - 1 /\ u[j].nonce \in Nat
      BY <1>3, <1>4, <1>5, <2>4
    <3>2. u[j].key = k => n - u[j].nonce = a + 1 - j
      BY <1>3, <1>5, <2>4
    <3>3. ~(i <= j)
      BY <1>6, <2>4
    <3>4. u[i].key = u[j].key => u[j].nonce - u[i].nonce = j - i
      <4>1. SUFFICES ASSUME u[i].key = u[j].key PROVE y - x = j - i
        OBVIOUS
      <4>2. y \in Nat /\ x = n + (i - a) - 1 /\ n - y = a + 1 - j
        BY <3>1, <3>2, <4>1
      <4> HIDE DEF x, y
      <4> QED
        BY <1>6, <2>0, <4>2
    <3> QED
      BY <3>3, <3>4
  <2> QED
    BY <1>7, <2>1, <2>2, <2>3, <2>4
<1>10. \A i \in 1..(a + b) : u[i].key = k => (n + b) - u[i].nonce = a + b + 1 - i
  <2> SUFFICES ASSUME NEW i \in 1..(a + b), u[i].key = k
               PROVE  (n + b) - u[i].nonce = a + b + 1 - i
    OBVIOUS
  <2> DEFINE x == u[i].nonce
  <2>0. i \in Nat
    BY <1>6
  <2>1. CASE i \in 1..a
    <3>1. n - x = a + 1 - i /\ x \in Nat
      BY <1>3, <1>5, <2>1
    <3> HIDE DEF x
    <3>2. (n + b) - x = a + b + 1 - i
      BY <1>6, <2>0, <3>1
    <3> QED
      BY <3>2 DEF x
  <2>2. CASE i \in (a + 1)..(a + b)
    <3>1. x = n + (i - a) - 1
      BY <1>4, <2>2
    <3> HIDE DEF x
    <3>2. (n + b) - x = a + b + 1 - i
      BY <1>6, <2>0, <3>1
    <3> QED
      BY <3>2 DEF x
  <2> QED
    BY <1>7, <2>1, <2>2
<1>11. Consecutive(u, k, n + b)
  BY <1>6, <1>8, <1>9, <1>10 DEF Consecutive
<1> QED
  BY <1>1, <1>11 DEF u, b

\* What was sent comes before the frames to be sent.
LEMMA SentBefore ==
  ASSUME SenderOK, SentOK, NEW f \in ToSet(sent)
  PROVE  f \in FrameType /\ f.key <= key /\ (f.key = key => f.nonce < nonce)
<1>1. PICK i \in 1..Len(sent) : f = sent[i]
  BY DEF ToSet, SentOK
<1>2. f \in FrameType
  BY <1>1 DEF SentOK
<1>3. f.key <= key /\ (f.key = key => nonce - f.nonce = Len(sent) + 1 - i)
  BY <1>1 DEF SentOK, Consecutive
<1>4. Len(sent) \in Nat /\ nonce \in Nat
  BY DEF SentOK, SenderOK
<1>5. f.nonce \in Nat
  BY <1>2 DEF FrameType
<1> QED
  BY <1>2, <1>3, <1>4, <1>5

-----------------------------------------------------------------------------
(* What a card captures *)

\* Frames that come after all of a sequence in order can be appended to it.
LEMMA InOrderConcat ==
  ASSUME NEW S, NEW s \in Seq(S), NEW t \in Seq(S), NEW H,
         InOrderAfter(s, H), InOrderAfter(t, H),
         \A i \in 1..Len(s) : \A j \in 1..Len(t) : Precedes(s[i], t[j])
  PROVE  InOrderAfter(s \o t, H)
<1> DEFINE u == s \o t
           a == Len(s)
           b == Len(t)
<1>1. /\ a \in Nat /\ b \in Nat /\ Len(u) = a + b
      /\ \A i \in 1..a : u[i] = s[i]
      /\ \A i \in (a + 1)..(a + b) : u[i] = t[i - a] /\ i - a \in 1..b
  OBVIOUS
<1>2. \A i \in 1..a : \A j \in 1..b : Precedes(s[i], t[j])
  OBVIOUS
<1>3. /\ \A i, j \in 1..a : i <= j => Precedes(s[i], s[j])
      /\ \A i, j \in 1..b : i <= j => Precedes(t[i], t[j])
      /\ \A h \in H : \A i \in 1..a : Precedes(h, s[i])
      /\ \A h \in H : \A i \in 1..b : Precedes(h, t[i])
  BY DEF InOrderAfter
<1> HIDE DEF u, a, b
<1>4. \A i \in 1..(a + b) : i \in 1..a \/ i \in (a + 1)..(a + b)
  BY <1>1
<1>5. ASSUME NEW i \in 1..(a + b), NEW j \in 1..(a + b), i <= j
      PROVE  Precedes(u[i], u[j])
  <2>1. CASE i \in 1..a /\ j \in 1..a
    BY <1>1, <1>3, <1>5, <2>1
  <2>2. CASE i \in 1..a /\ j \in (a + 1)..(a + b)
    BY <1>1, <1>2, <2>2
  <2>3. CASE i \in (a + 1)..(a + b) /\ j \in (a + 1)..(a + b)
    <3>1. i - a \in 1..b /\ j - a \in 1..b /\ i - a <= j - a
      BY <1>1, <1>5, <2>3
    <3> QED
      BY <1>1, <1>3, <2>3, <3>1
  <2>4. ~(i \in (a + 1)..(a + b) /\ j \in 1..a)
    BY <1>1, <1>5
  <2> QED
    BY <1>4, <2>1, <2>2, <2>3, <2>4
<1>6. \A h \in H : \A i \in 1..(a + b) : Precedes(h, u[i])
  BY <1>1, <1>3, <1>4
<1>7. Len(u) = a + b
  BY <1>1
<1> QED
  BY <1>5, <1>6, <1>7 DEF InOrderAfter, u

\* Handling the first frame a card holds.
LEMMA InOrderTail ==
  ASSUME NEW S, NEW s \in Seq(S), s # <<>>, NEW H, InOrderAfter(s, H)
  PROVE  /\ InOrderAfter(Tail(s), H \cup {Head(s)})
         /\ \A h \in H : Precedes(h, Head(s))
<1> DEFINE t == Tail(s)
           f == Head(s)
           a == Len(s)
<1>1. /\ a \in Nat /\ a >= 1 /\ Len(t) = a - 1 /\ f = s[1]
      /\ \A i \in 1..(a - 1) : t[i] = s[i + 1] /\ i + 1 \in 1..a
  OBVIOUS
<1>2. /\ \A i, j \in 1..a : i <= j => Precedes(s[i], s[j])
      /\ \A h \in H : \A i \in 1..a : Precedes(h, s[i])
  BY DEF InOrderAfter
<1> HIDE DEF t, f, a
<1>3. 1 \in 1..a
  BY <1>1
<1>4. \A i, j \in 1..(a - 1) : i <= j => Precedes(t[i], t[j])
  BY <1>1, <1>2
<1>5. \A h \in H : \A i \in 1..(a - 1) : Precedes(h, t[i])
  BY <1>1, <1>2
<1>6. \A i \in 1..(a - 1) : Precedes(f, t[i])
  BY <1>1, <1>2, <1>3
<1>7. \A h \in H : Precedes(h, f)
  BY <1>1, <1>2, <1>3
<1> QED
  BY <1>1, <1>4, <1>5, <1>6, <1>7 DEF InOrderAfter, t, f

\* The newest frame handled is the last one.
LEMMA LastStep ==
  ASSUME NEW f \in FrameType, NEW H, \A h \in H : Precedes(h, f)
  PROVE  IsLast(f.nonce, H \cup {f})
<1>1. Precedes(f, f)
  BY DEF Precedes, FrameType
<1> QED
  BY <1>1 DEF IsLast

\* The copies of one frame that a card captures.
LEMMA RepeatFacts ==
  ASSUME NEW S, NEW f \in S, NEW r \in {Repeat(f, n) : n \in 0..Copies(f)}
  PROVE  r \in Seq(S) /\ \A i \in 1..Len(r) : r[i] = f
<1>1. Copies(f) \in Nat
  BY FS_CardinalityType, WBTxRxAssumption DEF Copies, WBTxRxAssumption
<1>2. PICK n \in 0..Copies(f) : r = Repeat(f, n)
  OBVIOUS
<1>3. n \in Nat
  BY <1>1
<1>4. r = [i \in 1..n |-> f]
  BY <1>2 DEF Repeat
<1> QED
  BY <1>3, <1>4

\* Whatever a card captures of the frames is in order.
LEMMA CaptureFacts ==
  ASSUME SenderOK, NEW c \in Capture(Frames)
  PROVE  c \in Seq(ToSet(Frames)) /\ InOrderAfter(c, {})
<1> DEFINE fs == Frames
           S == ToSet(fs)
           Heard(f) == {Repeat(f, n) : n \in 0..Copies(f)}
<1>1. fs \in Seq(FrameType) /\ Len(fs) \in {1, 2} /\ Numbered(fs, key, nonce)
  BY FramesFacts
<1>2. key \in Nat /\ nonce \in Nat
  BY WBTxRxAssumption DEF SenderOK, WBTxRxAssumption
<1>3. \A i \in 1..Len(fs) : fs[i] \in S
  BY <1>1 DEF ToSet
<1>4. ASSUME NEW f \in S, NEW r \in Heard(f)
      PROVE  r \in Seq(S) /\ \A i \in 1..Len(r) : r[i] = f
  BY <1>4, RepeatFacts
<1>5. \A f \in S : f \in FrameType /\ Precedes(f, f)
  <2> TAKE f \in S
  <2>1. f \in FrameType
    BY <1>1 DEF ToSet
  <2> QED
    BY <2>1 DEF Precedes, FrameType
<1>6. ASSUME NEW f \in S, NEW r \in Heard(f)
      PROVE  InOrderAfter(r, {})
  BY <1>4, <1>5, <1>6 DEF InOrderAfter
<1>7. CASE Len(fs) = 1
  <2>1. c \in Heard(fs[1])
    BY <1>7 DEF Capture
  <2> QED
    BY <1>3, <1>4, <1>6, <1>7, <2>1
<1>8. CASE Len(fs) = 2
  <2> DEFINE heard == [i \in 1..Len(fs) |-> Heard(fs[i])]
  <2>a. Capture(fs) = IF Len(fs) = 1 THEN heard[1] ELSE {a \o b : a \in heard[1], b \in heard[2]}
    BY DEF Capture
  <2>b. heard[1] = Heard(fs[1]) /\ heard[2] = Heard(fs[2])
    BY <1>8
  <2> HIDE DEF heard
  <2>c. c \in {a \o b : a \in heard[1], b \in heard[2]}
    BY <1>8, <2>a
  <2> HIDE DEF Heard
  <2>1. PICK a \in Heard(fs[1]), b \in Heard(fs[2]) : c = a \o b
    BY <2>b, <2>c
  <2>2. fs[1] \in S /\ fs[2] \in S
    BY <1>3, <1>8
  <2>3. Precedes(fs[1], fs[2])
    BY <1>1, <1>2, <1>8 DEF Numbered, Precedes
  <2> HIDE DEF fs, S, Heard
  <2>4. a \in Seq(S) /\ b \in Seq(S) /\ InOrderAfter(a, {}) /\ InOrderAfter(b, {})
    BY <1>4, <1>6, <2>1, <2>2
  <2>5. \A i \in 1..Len(a) : \A j \in 1..Len(b) : Precedes(a[i], b[j])
    BY <1>4, <2>1, <2>2, <2>3
  <2>6. InOrderAfter(a \o b, {})
    BY <2>4, <2>5, InOrderConcat
  <2>7. a \o b \in Seq(S)
    BY <2>4
  <2> QED
    BY <2>1, <2>6, <2>7 DEF fs, S
<1> QED
  BY <1>1, <1>7, <1>8

-----------------------------------------------------------------------------
(* The steps of the sender *)

\* Sending keeps the numbering and the order in which every card hands on.
LEMMA TxInjectPacketStep == IInv /\ TxInjectPacket => IInv'
<1> SUFFICES ASSUME IInv, TxInjectPacket
             PROVE  IInv'
  OBVIOUS
<1>1. SenderOK /\ SentOK /\ ReceiverOK /\ \A c \in Card : CardOK(c)
  BY DEF IInv
<1>2. PICK cap \in [Card -> Capture(Frames)] : captured' = [k \in Card |-> captured[k] \o cap[k]]
  BY DEF TxInjectPacket
<1>3. /\ sent' = sent \o Frames /\ nonce' = nonce + Len(Frames) /\ due' = FALSE
      /\ UNCHANGED <<key, passive, redundant, restarts, ready, session, handler, delivered>>
      /\ UNCHANGED <<last, missing, handled, missingAtReset, resets>>
  BY DEF TxInjectPacket, lossVars
<1>4. Frames \in Seq(FrameType) /\ Len(Frames) \in {1, 2} /\ Numbered(Frames, key, nonce)
  BY <1>1, FramesFacts
<1>5. key \in Nat /\ nonce \in Nat
  BY <1>1, WBTxRxAssumption DEF SenderOK, WBTxRxAssumption
<1>6. SenderOK'
  <2>1. nonce' \in Nat
    BY <1>3, <1>4, <1>5
  <2>2. key' = restarts' + 1 /\ restarts' \in 0..MaxRestarts
    BY <1>1, <1>3 DEF SenderOK
  <2>3. due' \in BOOLEAN /\ passive' \in BOOLEAN /\ redundant' \in BOOLEAN
    BY <1>1, <1>3, Zenon DEF SenderOK
  <2> QED
    BY <2>1, <2>2, <2>3, Zenon DEF SenderOK
<1>7. SentOK'
  BY <1>1, <1>3, <1>4, <1>5, ConsecutiveAppend DEF SentOK
<1>8. ToSet(sent) \subseteq ToSet(sent') /\ ToSet(Frames) \subseteq ToSet(sent')
  <2>1. sent \in Seq(FrameType)
    BY <1>1 DEF SentOK
  <2>2. /\ Len(sent') = Len(sent) + Len(Frames)
        /\ Len(sent) \in Nat /\ Len(Frames) \in Nat
        /\ \A i \in 1..Len(sent) : sent'[i] = sent[i]
        /\ \A i \in 1..Len(Frames) : sent'[Len(sent) + i] = Frames[i]
    BY <1>3, <1>4, <2>1
  <2>3. DOMAIN sent = 1..Len(sent) /\ DOMAIN Frames = 1..Len(Frames) /\ DOMAIN sent' = 1..Len(sent')
    BY <1>3, <1>4, <2>1
  <2>4. ASSUME NEW i \in 1..Len(sent)
        PROVE  i \in DOMAIN sent' /\ sent'[i] = sent[i]
    BY <2>2, <2>3
  <2>5. ASSUME NEW i \in 1..Len(Frames)
        PROVE  Len(sent) + i \in DOMAIN sent' /\ sent'[Len(sent) + i] = Frames[i]
    BY <2>2, <2>3
  <2>6. ToSet(sent) \subseteq ToSet(sent')
    BY <2>3, <2>4, Zenon DEF ToSet
  <2>7. ToSet(Frames) \subseteq ToSet(sent')
    BY <2>3, <2>5, Zenon DEF ToSet
  <2> QED
    BY <2>6, <2>7
<1>9. \A f \in ToSet(sent) : \A g \in ToSet(Frames) : Precedes(f, g)
  <2> TAKE f \in ToSet(sent)
  <2> TAKE g \in ToSet(Frames)
  <2>1. f \in FrameType /\ f.key <= key /\ (f.key = key => f.nonce < nonce)
    BY <1>1, SentBefore
  <2>2. PICK i \in 1..Len(Frames) : g = Frames[i]
    BY <1>4 DEF ToSet
  <2>3. g.key = key /\ g.nonce = nonce + i - 1
    BY <1>4, <2>2 DEF Numbered
  <2>4. f.key \in Nat /\ f.nonce \in Nat
    BY <2>1 DEF FrameType
  <2>5. Len(Frames) \in Nat
    BY <1>4
  <2> QED
    BY <1>5, <2>1, <2>2, <2>3, <2>4, <2>5 DEF Precedes
<1>10. ASSUME NEW c \in Card
       PROVE  CardOK(c)' /\ captured'[c] \in Seq(FrameType)
  <2>1. CardOK(c)
    BY <1>1
  <2>2. cap[c] \in Capture(Frames)
    OBVIOUS
  <2>3. cap[c] \in Seq(ToSet(Frames)) /\ InOrderAfter(cap[c], {})
    BY <1>1, <2>2, CaptureFacts
  <2> DEFINE s == captured[c]
             t == cap[c]
             T == ToSet(sent')
             H == handled[c]
  <2>4. s \in Seq(ToSet(sent)) /\ H \subseteq ToSet(sent) /\ InOrderAfter(s, H)
    BY <2>1 DEF CardOK
  <2> HIDE DEF s, t, T, H
  <2>5. s \in Seq(T) /\ t \in Seq(T)
    BY <1>8, <2>3, <2>4 DEF t, T
  <2>6. \A i \in 1..Len(s) : s[i] \in ToSet(sent)
    BY <2>4
  <2>7. \A i \in 1..Len(t) : t[i] \in ToSet(Frames)
    BY <2>3 DEF t
  <2>8. InOrderAfter(t, H)
    BY <1>9, <2>3, <2>4, <2>7 DEF InOrderAfter, t
  <2>9. \A i \in 1..Len(s) : \A j \in 1..Len(t) : Precedes(s[i], t[j])
    BY <1>9, <2>6, <2>7
  <2>10. InOrderAfter(s \o t, H)
    BY <2>4, <2>5, <2>8, <2>9, InOrderConcat
  <2>11. captured'[c] = s \o t
    BY <1>2 DEF s, t
  <2>12. captured'[c] \in Seq(T)
    BY <2>5, <2>11
  <2>13. handled'[c] = H /\ last'[c] = last[c]
    BY <1>3 DEF H
  <2>14. H \subseteq T
    BY <1>8, <2>4 DEF T
  <2>15. IsLast(last[c], H)
    BY <2>1 DEF CardOK, H
  <2>16. CardOK(c)'
    BY <2>10, <2>11, <2>12, <2>13, <2>14, <2>15 DEF CardOK, T
  <2>17. T \subseteq FrameType
    BY <1>7 DEF T, ToSet, SentOK
  <2> QED
    BY <2>12, <2>16, <2>17
<1>11. captured' \in [Card -> Seq(FrameType)]
  BY <1>2, <1>10
<1>12. ReceiverOK'
  BY <1>1, <1>3, <1>11 DEF ReceiverOK
<1> QED
  BY <1>6, <1>7, <1>10, <1>12 DEF IInv

\* A new session has no frame yet.
LEMMA RestartStep == IInv /\ Restart => IInv'
<1> SUFFICES ASSUME IInv, Restart
             PROVE  IInv'
  OBVIOUS
<1>1. SenderOK /\ SentOK /\ ReceiverOK /\ \A c \in Card : CardOK(c)
  BY DEF IInv
<1>2. /\ restarts < MaxRestarts /\ restarts' = restarts + 1 /\ key' = key + 1 /\ due' = TRUE
      /\ nonce' \in NonceStart /\ passive' = FALSE /\ redundant' = FALSE
      /\ UNCHANGED <<sent, captured, ready, session, handler, delivered>>
      /\ UNCHANGED <<last, missing, handled, missingAtReset, resets>>
  BY DEF Restart, lossVars
<1>3. MaxRestarts \in Nat /\ NonceStart \subseteq Nat
  BY WBTxRxAssumption DEF WBTxRxAssumption
<1>4. SenderOK' /\ key \in Nat
  <2>1. nonce' \in Nat
    BY <1>2, <1>3
  <2>2. key' = restarts' + 1 /\ restarts' \in 0..MaxRestarts /\ key \in Nat
    BY <1>1, <1>2, <1>3 DEF SenderOK
  <2>3. due' \in BOOLEAN /\ passive' \in BOOLEAN /\ redundant' \in BOOLEAN
    BY <1>2, Zenon
  <2> QED
    BY <2>1, <2>2, <2>3, Zenon DEF SenderOK
<1>5. SentOK'
  <2>1. sent \in Seq(FrameType) /\ Consecutive(sent, key, nonce)
    BY <1>1 DEF SentOK
  <2>2. \A i \in 1..Len(sent) : sent[i] \in FrameType
    BY <2>1
  <2>3. \A i \in 1..Len(sent) : sent[i].key \in Nat
    BY <2>2 DEF FrameType
  <2>4. \A i \in 1..Len(sent) : sent[i].key <= key + 1 /\ sent[i].key # key + 1
    BY <1>4, <2>1, <2>3 DEF Consecutive
  <2>5. Consecutive(sent, key + 1, nonce')
    BY <2>1, <2>4 DEF Consecutive
  <2> QED
    BY <1>2, <2>1, <2>5 DEF SentOK
<1>6. \A c \in Card : CardOK(c)'
  BY <1>1, <1>2 DEF CardOK
<1>7. ReceiverOK'
  BY <1>1, <1>2, <1>4 DEF ReceiverOK
<1> QED
  BY <1>4, <1>5, <1>6, <1>7 DEF IInv

-----------------------------------------------------------------------------
(* The steps of the receiver *)

\* Natural numbers have a least one in every set.
LEMMA LeastNatural ==
  ASSUME NEW T, T \subseteq Nat, T # {}
  PROVE  \E m \in T : \A n \in T : m <= n
<1>1. PICK m \in T : \A n \in T : ~(<<n, m>> \in OpToRel(<, Nat))
  BY WFMin, NatLessThanWellFounded
<1>2. \A n \in T : ~(n < m)
  BY <1>1 DEF OpToRel
<1> QED
  BY <1>2

\* The card whose turn it is, is one of the cards.
LEMMA TurnIsCard ==
  ASSUME ready \subseteq Card, ready # {}
  PROVE  Turn \in ready /\ Turn \in Card
<1>1. ready \subseteq Nat
  BY WBTxRxAssumption DEF WBTxRxAssumption
<1>2. \E m \in ready : \A n \in ready : m <= n
  BY <1>1, LeastNatural
<1> QED
  BY <1>2 DEF Turn, Min

\* Taking the next frame from the card whose turn it is: what every handler of a
\* received frame has in common.
LEMMA ReceiveFacts ==
  ASSUME IInv, NEW f, Receive(f)
  PROVE  /\ Turn \in Card
         /\ f \in ToSet(sent) /\ f \in FrameType /\ f.key <= key
         /\ captured' \in [Card -> Seq(FrameType)]
         /\ \A c \in Card : c # Turn => captured'[c] = captured[c]
         /\ captured'[Turn] \in Seq(ToSet(sent))
         /\ InOrderAfter(captured'[Turn], handled[Turn] \cup {f})
         /\ \A h \in handled[Turn] : Precedes(h, f)
         /\ UNCHANGED <<key, nonce, due, passive, redundant, sent, restarts, ready>>
<1> DEFINE s == captured[Turn]
<1>1. SenderOK /\ SentOK /\ ReceiverOK /\ \A c \in Card : CardOK(c)
  BY DEF IInv
<1>2. /\ ready # {} /\ s # <<>> /\ f = Head(s)
      /\ captured' = [captured EXCEPT ![Turn] = Tail(@)]
      /\ UNCHANGED <<key, nonce, due, passive, redundant, sent, restarts, ready>>
  BY DEF Receive, senderVars
<1>3. Turn \in Card
  BY <1>1, <1>2, TurnIsCard DEF ReceiverOK
<1>4. s \in Seq(ToSet(sent)) /\ InOrderAfter(s, handled[Turn])
  BY <1>1, <1>3 DEF CardOK
<1>5. captured \in [Card -> Seq(FrameType)]
  BY <1>1 DEF ReceiverOK
<1>6. /\ captured'[Turn] = Tail(s)
      /\ \A c \in Card : c # Turn => captured'[c] = captured[c]
  BY <1>2, <1>3, <1>5
<1>7. s \in Seq(FrameType)
  BY <1>3, <1>5
<1> HIDE DEF s
<1>8. Tail(s) \in Seq(FrameType) /\ Tail(s) \in Seq(ToSet(sent)) /\ Head(s) \in ToSet(sent)
  BY <1>2, <1>4, <1>7
<1>9. captured' \in [Card -> Seq(FrameType)]
  BY <1>2, <1>3, <1>5, <1>8 DEF s
<1>10. f \in FrameType /\ f.key <= key
  BY <1>1, <1>2, <1>8, SentBefore
<1>11. InOrderAfter(Tail(s), handled[Turn] \cup {f}) /\ \A h \in handled[Turn] : Precedes(h, f)
  BY <1>2, <1>4, InOrderTail
<1> QED
  BY <1>2, <1>3, <1>6, <1>8, <1>9, <1>10, <1>11

\* The sequence number of a handled frame.
LEMMA OnNewSequenceNumberFacts ==
  ASSUME IInv, NEW f, Receive(f), OnNewSequenceNumber(Turn, f)
  PROVE  /\ \A c \in Card : CardOK(c)'
         /\ handled' \in [Card -> SUBSET FrameType]
         /\ last' \in [Card -> Nat \cup {NoNonce}]
         /\ missing' \in [Card -> Nat] /\ missingAtReset' = missingAtReset
<1>1. SenderOK /\ SentOK /\ ReceiverOK /\ \A c \in Card : CardOK(c)
  BY DEF IInv
<1> DEFINE diff == f.nonce - last[Turn]
           counts == last[Turn] # NoNonce /\ diff > 0 /\ diff <= MaxGap
<1>2. /\ last' = [last EXCEPT ![Turn] = f.nonce]
      /\ missing' = IF counts THEN [missing EXCEPT ![Turn] = @ + Gap(diff)] ELSE missing
      /\ handled' = [handled EXCEPT ![Turn] = @ \cup {f}]
      /\ missingAtReset' = missingAtReset
  BY DEF OnNewSequenceNumber
<1>3. /\ Turn \in Card
      /\ f \in ToSet(sent) /\ f \in FrameType
      /\ \A c \in Card : c # Turn => captured'[c] = captured[c]
      /\ captured'[Turn] \in Seq(ToSet(sent))
      /\ InOrderAfter(captured'[Turn], handled[Turn] \cup {f})
      /\ \A h \in handled[Turn] : Precedes(h, f)
      /\ sent' = sent
  BY ReceiveFacts
<1>4. /\ handled \in [Card -> SUBSET FrameType] /\ last \in [Card -> Nat \cup {NoNonce}]
      /\ missing \in [Card -> Nat]
  BY <1>1 DEF ReceiverOK
<1>5. f.nonce \in Nat
  BY <1>3 DEF FrameType
<1>6. last' \in [Card -> Nat \cup {NoNonce}] /\ handled' \in [Card -> SUBSET FrameType]
  BY <1>2, <1>3, <1>4, <1>5
<1>7. missing' \in [Card -> Nat]
  <2>1. last[Turn] \in Int
    BY <1>3, <1>4 DEF NoNonce
  <2>2. counts => Gap(diff) \in Nat
    BY <1>5, <2>1 DEF Gap
  <2>3. counts => missing[Turn] + Gap(diff) \in Nat
    BY <1>3, <1>4, <2>2
  <2> HIDE DEF counts, diff
  <2> QED
    BY <1>2, <1>3, <1>4, <2>3
<1>8. ASSUME NEW c \in Card, c # Turn
      PROVE  CardOK(c)'
  <2>1. CardOK(c)
    BY <1>1
  <2>2. captured'[c] = captured[c] /\ handled'[c] = handled[c] /\ last'[c] = last[c]
    BY <1>2, <1>3, <1>4, <1>8
  <2> QED
    BY <1>3, <2>1, <2>2 DEF CardOK
<1>9. ASSUME NEW c \in Card, c = Turn
      PROVE  CardOK(c)'
  <2>1. handled'[c] = handled[c] \cup {f} /\ last'[c] = f.nonce
    BY <1>2, <1>4, <1>9
  <2>2. IsLast(f.nonce, handled[c] \cup {f})
    BY <1>3, <1>9, LastStep
  <2>3. handled[c] \subseteq ToSet(sent)
    BY <1>1 DEF CardOK
  <2> QED
    BY <1>3, <1>9, <2>1, <2>2, <2>3 DEF CardOK
<1> QED
  BY <1>2, <1>6, <1>7, <1>8, <1>9

\* A session packet: the handlers know the session afterwards.
LEMMA ReceiveSessionKeyStep ==
  ASSUME IInv, NEW f, ReceiveSessionKey(f)
  PROVE  IInv'
<1>1. SenderOK /\ SentOK /\ ReceiverOK
  BY DEF IInv
<1>2. /\ Receive(f) /\ OnNewSequenceNumber(Turn, f) /\ session' = f.key
      /\ handler' = (IF IsNewSession(f) THEN f.key ELSE handler)
      /\ delivered' = delivered
  BY DEF ReceiveSessionKey
<1>3. /\ f \in FrameType /\ f.key <= key
      /\ captured' \in [Card -> Seq(FrameType)]
      /\ UNCHANGED <<key, nonce, due, passive, redundant, sent, restarts, ready>>
  BY <1>2, ReceiveFacts
<1>4. /\ \A c \in Card : CardOK(c)'
      /\ handled' \in [Card -> SUBSET FrameType]
      /\ last' \in [Card -> Nat \cup {NoNonce}]
      /\ missing' \in [Card -> Nat] /\ missingAtReset' = missingAtReset
  BY <1>2, OnNewSequenceNumberFacts
<1>5. SenderOK' /\ SentOK'
  BY <1>1, <1>3 DEF SenderOK, SentOK
<1>6. f.key \in Nat
  BY <1>3 DEF FrameType
<1>7. key \in Nat
  BY <1>1, WBTxRxAssumption DEF SenderOK, WBTxRxAssumption
<1>8. session' \in 0..key' /\ handler' = session'
  BY <1>1, <1>2, <1>3, <1>6, <1>7 DEF ReceiverOK, IsNewSession
<1>9. ReceiverOK'
  BY <1>1, <1>2, <1>3, <1>4, <1>8 DEF ReceiverOK
<1> QED
  BY <1>4, <1>5, <1>9 DEF IInv

\* A data packet that is decrypted.
LEMMA ReceiveDataStep ==
  ASSUME IInv, NEW f, ReceiveData(f)
  PROVE  IInv'
<1>1. SenderOK /\ SentOK /\ ReceiverOK
  BY DEF IInv
<1>2. /\ Receive(f) /\ OnNewSequenceNumber(Turn, f) /\ f.key = session
      /\ delivered' = delivered \cup {[frame |-> f, card |-> Turn, told |-> handler]}
      /\ UNCHANGED <<session, handler>>
  BY DEF ReceiveData, Decrypts
<1>3. /\ captured' \in [Card -> Seq(FrameType)]
      /\ UNCHANGED <<key, nonce, due, passive, redundant, sent, restarts, ready>>
  BY <1>2, ReceiveFacts
<1>4. /\ \A c \in Card : CardOK(c)'
      /\ handled' \in [Card -> SUBSET FrameType]
      /\ last' \in [Card -> Nat \cup {NoNonce}]
      /\ missing' \in [Card -> Nat] /\ missingAtReset' = missingAtReset
  BY <1>2, OnNewSequenceNumberFacts
<1>5. SenderOK' /\ SentOK'
  BY <1>1, <1>3 DEF SenderOK, SentOK
<1>6. \A d \in delivered' : d.frame.key = d.told
  BY <1>1, <1>2 DEF ReceiverOK
<1>7. ReceiverOK'
  BY <1>1, <1>2, <1>3, <1>4, <1>6 DEF ReceiverOK
<1> QED
  BY <1>4, <1>5, <1>7 DEF IInv

\* A data packet of another session: nothing but the card's queue changes.
LEMMA RejectDataStep ==
  ASSUME IInv, NEW f, RejectData(f)
  PROVE  IInv'
<1>1. SenderOK /\ SentOK /\ ReceiverOK /\ \A c \in Card : CardOK(c)
  BY DEF IInv
<1>2. Receive(f) /\ UNCHANGED <<session, handler, delivered, last, missing, handled, missingAtReset>>
  BY DEF RejectData, lossVars
<1>3. /\ Turn \in Card
      /\ captured' \in [Card -> Seq(FrameType)]
      /\ \A c \in Card : c # Turn => captured'[c] = captured[c]
      /\ captured'[Turn] \in Seq(ToSet(sent))
      /\ InOrderAfter(captured'[Turn], handled[Turn] \cup {f})
      /\ UNCHANGED <<key, nonce, due, passive, redundant, sent, restarts, ready>>
  BY <1>2, ReceiveFacts
<1>4. SenderOK' /\ SentOK' /\ ReceiverOK'
  BY <1>1, <1>2, <1>3 DEF SenderOK, SentOK, ReceiverOK
<1>5. ASSUME NEW c \in Card
      PROVE  CardOK(c)'
  <2>1. CardOK(c)
    BY <1>1
  <2>2. CASE c # Turn
    BY <1>2, <1>3, <2>1, <2>2 DEF CardOK
  <2>3. CASE c = Turn
    <3>1. InOrderAfter(captured'[c], handled[c])
      BY <1>3, <2>3 DEF InOrderAfter
    <3> QED
      BY <1>2, <1>3, <2>1, <2>3, <3>1 DEF CardOK
  <2> QED
    BY <2>2, <2>3
<1> QED
  BY <1>4, <1>5 DEF IInv

\* After a reset no frame counts as handled.
LEMMA RxResetStatsStep == IInv /\ RxResetStats => IInv'
<1> SUFFICES ASSUME IInv, RxResetStats
             PROVE  IInv'
  OBVIOUS
<1>1. SenderOK /\ SentOK /\ ReceiverOK /\ \A c \in Card : CardOK(c)
  BY DEF IInv
<1>2. /\ last' = [c \in Card |-> NoNonce] /\ handled' = [c \in Card |-> {}]
      /\ missingAtReset' = missing /\ missing' = missing
      /\ UNCHANGED <<key, nonce, due, passive, redundant, sent, restarts>>
      /\ UNCHANGED <<captured, ready, session, handler, delivered>>
  BY DEF RxResetStats, senderVars
<1>3. SenderOK' /\ SentOK' /\ ReceiverOK'
  BY <1>1, <1>2 DEF SenderOK, SentOK, ReceiverOK
<1>4. ASSUME NEW c \in Card
      PROVE  CardOK(c)'
  <2>1. CardOK(c)
    BY <1>1
  <2>2. last'[c] = NoNonce /\ handled'[c] = {} /\ captured' = captured /\ sent' = sent
    BY <1>2
  <2> QED
    BY <2>1, <2>2 DEF CardOK, IsLast, InOrderAfter
<1> QED
  BY <1>3, <1>4 DEF IInv

-----------------------------------------------------------------------------
(* The results *)

\* Nothing is sent or held at first.
LEMMA InitIInv == Init => IInv
<1> SUFFICES ASSUME Init
             PROVE  IInv
  OBVIOUS
<1>1. NonceStart \subseteq Nat /\ MaxRestarts \in Nat
  BY WBTxRxAssumption DEF WBTxRxAssumption
<1>2. SenderOK
  <2>1. key = restarts + 1 /\ restarts \in 0..MaxRestarts /\ nonce \in Nat
    BY <1>1 DEF Init
  <2>2. due \in BOOLEAN /\ passive \in BOOLEAN /\ redundant \in BOOLEAN
    BY DEF Init
  <2> QED
    BY <2>1, <2>2, Zenon DEF SenderOK
<1>3. sent = <<>> /\ sent \in Seq(FrameType) /\ Len(sent) = 0
  BY DEF Init
<1>4. SentOK
  BY <1>3 DEF SentOK, Consecutive
<1>5. <<>> \in Seq(FrameType) /\ <<>> \in Seq(ToSet(sent)) /\ Len(<<>>) = 0
  OBVIOUS
<1>6. ReceiverOK
  BY <1>5 DEF Init, ReceiverOK, NoKey
<1>7. \A c \in Card : CardOK(c)
  BY <1>5 DEF Init, CardOK, InOrderAfter, IsLast
<1> QED
  BY <1>2, <1>4, <1>6, <1>7 DEF IInv

\* Every step keeps the invariant.
LEMMA NextIInv == IInv /\ [Next]_vars => IInv'
<1> SUFFICES ASSUME IInv, [Next]_vars
             PROVE  IInv'
  OBVIOUS
<1>1. SenderOK /\ SentOK /\ ReceiverOK /\ \A c \in Card : CardOK(c)
  BY DEF IInv
<1>2. ASSUME UNCHANGED <<key, nonce, sent, restarts, captured, session, handler, delivered, last,
                         missing, handled, missingAtReset>>,
             due' \in BOOLEAN, passive' \in BOOLEAN, redundant' \in BOOLEAN,
             ready' \subseteq Card
      PROVE  IInv'
  <2>1. SenderOK' /\ SentOK'
    BY <1>1, <1>2, Zenon DEF SenderOK, SentOK
  <2>2. ReceiverOK'
    BY <1>1, <1>2 DEF ReceiverOK
  <2>3. \A c \in Card : CardOK(c)'
    BY <1>1, <1>2 DEF CardOK
  <2> QED
    BY <2>1, <2>2, <2>3 DEF IInv
<1>3. due \in BOOLEAN /\ passive \in BOOLEAN /\ redundant \in BOOLEAN /\ ready \subseteq Card
  BY <1>1, Zenon DEF SenderOK, ReceiverOK
<1>4. CASE UNCHANGED vars
  BY <1>2, <1>3, <1>4 DEF vars, senderVars, lossVars
<1>5. CASE AnnounceDue
  BY <1>2, <1>3, <1>5 DEF AnnounceDue, lossVars
<1>6. CASE SetPassiveMode
  BY <1>2, <1>3, <1>6 DEF SetPassiveMode, lossVars
<1>7. CASE SetEnableRedundantTx
  BY <1>2, <1>3, <1>7 DEF SetEnableRedundantTx, lossVars
<1>8. CASE Poll
  BY <1>2, <1>3, <1>8 DEF Poll, Readable, senderVars, lossVars
<1>9. CASE Drained
  BY <1>2, <1>3, <1>9 DEF Drained, senderVars, lossVars
<1>10. CASE TxInjectPacket
  BY <1>10, TxInjectPacketStep
<1>11. CASE Restart
  BY <1>11, RestartStep
<1>12. CASE RxResetStats
  BY <1>12, RxResetStatsStep
<1>13. ASSUME NEW f, ReceiveSessionKey(f) \/ ReceiveData(f) \/ RejectData(f)
       PROVE  IInv'
  BY <1>13, ReceiveSessionKeyStep, ReceiveDataStep, RejectDataStep
<1> QED
  BY <1>4, <1>5, <1>6, <1>7, <1>8, <1>9, <1>10, <1>11, <1>12, <1>13 DEF Next

\* IInv is an invariant of the link.
LEMMA Invariance == Spec => []IInv
BY InitIInv, NextIInv, PTL DEF Spec

\* Keys, numbers and counts stay in range: a count of missing packets never
\* falls, and the receiver only ever has a key of the sender's.
THEOREM TypeCorrect == Spec => []TypeOK
<1>1. IInv => TypeOK
  <2> SUFFICES ASSUME IInv
               PROVE  TypeOK
    OBVIOUS
  <2>1. SenderOK /\ ReceiverOK
    BY DEF IInv
  <2>2. key \in 1..(MaxRestarts + 1)
    BY <2>1, WBTxRxAssumption DEF SenderOK, WBTxRxAssumption
  <2>3. session \in 0..key /\ handler \in 0..key
    BY <2>1 DEF ReceiverOK
  <2>4. nonce \in Nat /\ due \in BOOLEAN /\ passive \in BOOLEAN /\ redundant \in BOOLEAN
    BY <2>1, Zenon DEF SenderOK
  <2>5. ready \subseteq Card /\ \A c \in Card : last[c] \in Nat \cup {NoNonce} /\ missing[c] \in Nat
    BY <2>1 DEF ReceiverOK
  <2> QED
    BY <2>2, <2>3, <2>4, <2>5, Zenon DEF TypeOK
<1> QED
  BY <1>1, Invariance, PTL

\* tx_inject_packet and send_session_key never use a number twice with one
\* session key, whatever they interleave with.
THEOREM NoncesUniqueAlways == Spec => []NoncesUnique
<1>1. IInv => NoncesUnique
  <2> SUFFICES ASSUME IInv, NEW i \in 1..Len(sent), NEW j \in 1..Len(sent),
                      sent[i].key = sent[j].key, sent[i].nonce = sent[j].nonce
               PROVE  i = j
    BY DEF NoncesUnique
  <2>1. sent \in Seq(FrameType) /\ sent[j].nonce - sent[i].nonce = j - i
    BY DEF IInv, SentOK, Consecutive
  <2>2. sent[i] \in FrameType
    BY <2>1
  <2>3. sent[i].nonce \in Nat
    BY <2>2 DEF FrameType
  <2> QED
    BY <2>1, <2>3
<1> QED
  BY <1>1, Invariance, PTL

\* A stream handler gets no data of a session it was not told of before: the
\* session changes only where process_session_stream_packet announces it.
THEOREM SessionBeforeDataAlways == Spec => []SessionBeforeData
<1>1. IInv => SessionBeforeData
  BY DEF IInv, ReceiverOK, SessionBeforeData
<1> QED
  BY <1>1, Invariance, PTL

-----------------------------------------------------------------------------
(* The loss a card counts *)

\* Frames of S that were not in H but between two that were.
LostOf(S, H) ==
  {f \in S \ H : \E a, b \in H : a.key = f.key /\ b.key = f.key
                                 /\ a.nonce < f.nonce /\ f.nonce < b.nonce}

\* Frames of a sequence, by their positions.
LEMMA SentPositions ==
  ASSUME NEW s \in Seq(FrameType), NEW k, NEW n, Consecutive(s, k, n),
         NEW p \in 1..Len(s), NEW q \in 1..Len(s)
  PROVE  /\ s[p] \in FrameType /\ s[p].key \in Nat /\ s[p].nonce \in Nat
         /\ p <= q => s[p].key <= s[q].key
         /\ s[p].key = s[q].key => s[q].nonce - s[p].nonce = q - p
<1>1. s[p] \in FrameType
  OBVIOUS
<1>2. s[p].key \in Nat /\ s[p].nonce \in Nat
  BY <1>1 DEF FrameType
<1> QED
  BY <1>1, <1>2 DEF Consecutive

\* A number of a session stands for one frame.
LEMMA SentDistinct ==
  ASSUME NEW s \in Seq(FrameType), NEW k, NEW n, Consecutive(s, k, n),
         NEW f \in ToSet(s), NEW g \in ToSet(s), f.key = g.key, f.nonce = g.nonce
  PROVE  f = g
<1>1. PICK p \in 1..Len(s) : f = s[p]
  BY DEF ToSet
<1>2. PICK q \in 1..Len(s) : g = s[q]
  BY DEF ToSet
<1>3. s[q].nonce - s[p].nonce = q - p /\ s[p].nonce \in Nat
  BY <1>1, <1>2, SentPositions
<1>4. q - p = 0
  BY <1>1, <1>2, <1>3
<1>5. p = q
  BY <1>4
<1> QED
  BY <1>1, <1>2, <1>5

\* The frames between two of one session: as many as their numbers are apart.
LEMMA BetweenCount ==
  ASSUME NEW s \in Seq(FrameType), NEW k, NEW n, Consecutive(s, k, n),
         NEW p \in 1..Len(s), NEW q \in 1..Len(s), p < q, s[p].key = s[q].key
  PROVE  LET G == {s[i] : i \in (p + 1)..(q - 1)}
         IN  /\ IsFiniteSet(G) /\ Cardinality(G) = q - p - 1
             /\ \A g \in G : g \in ToSet(s) /\ g.key = s[p].key /\ g.nonce \in Nat
                             /\ s[p].nonce < g.nonce /\ g.nonce < s[q].nonce
             /\ \A g \in ToSet(s) : g.key = s[p].key /\ s[p].nonce < g.nonce
                                    /\ g.nonce < s[q].nonce => g \in G
<1> DEFINE I == (p + 1)..(q - 1)
           G == {s[i] : i \in I}
           w == [i \in I |-> s[i]]
<1>1. p \in Nat /\ q \in Nat /\ Len(s) \in Nat /\ I \subseteq 1..Len(s)
  OBVIOUS
<1>2. ASSUME NEW i \in I
      PROVE  /\ s[i] \in FrameType /\ s[i].key = s[p].key /\ s[i].nonce \in Nat
             /\ s[i].nonce - s[p].nonce = i - p /\ s[q].nonce - s[i].nonce = q - i
  <2>1. i \in 1..Len(s) /\ p <= i /\ i <= q
    BY <1>1
  <2>2. s[p].key <= s[i].key /\ s[i].key <= s[q].key
    BY <2>1, SentPositions
  <2>3. s[i] \in FrameType /\ s[i].nonce \in Nat /\ s[i].key \in Nat /\ s[p].key \in Nat
    BY <2>1, SentPositions
  <2>4. s[i].key = s[p].key
    BY <2>2, <2>3
  <2> QED
    BY <2>1, <2>3, <2>4, SentPositions
<1>3. s[p].nonce \in Nat /\ s[q].nonce \in Nat
  BY SentPositions
<1>4. IsFiniteSet(I) /\ Cardinality(I) = q - p - 1
  <2>1. p + 1 \in Int /\ q - 1 \in Int
    BY <1>1
  <2>2. IsFiniteSet(I) /\ Cardinality(I) = IF p + 1 > q - 1 THEN 0 ELSE (q - 1) - (p + 1) + 1
    BY <2>1, FS_Interval, Zenon
  <2> QED
    BY <1>1, <2>2
<1>5. w \in Bijection(I, G)
  <2>1. w \in Surjection(I, G)
    BY DEF Surjection
  <2>2. ASSUME NEW i \in I, NEW j \in I, w[i] = w[j]
        PROVE  i = j
    <3>1. s[i] = s[j]
      BY <2>2
    <3>2. s[i].nonce - s[p].nonce = i - p /\ s[j].nonce - s[p].nonce = j - p /\ s[i].nonce \in Nat
      BY <1>2
    <3>3. i \in Int /\ j \in Int
      OBVIOUS
    <3> QED
      BY <1>1, <1>3, <3>1, <3>2, <3>3
  <2>3. w \in Injection(I, G)
    BY <2>1, <2>2, Zenon DEF Injection, IsInjective, Surjection
  <2> QED
    BY <2>1, <2>3 DEF Bijection
<1>6. IsFiniteSet(G) /\ Cardinality(G) = q - p - 1
  <2>1. ExistsBijection(I, G)
    BY <1>5 DEF ExistsBijection
  <2> HIDE DEF G, I
  <2> QED
    BY <1>4, <2>1, FS_Bijection
<1>7. ASSUME NEW g \in G
      PROVE  g \in ToSet(s) /\ g.key = s[p].key /\ g.nonce \in Nat
             /\ s[p].nonce < g.nonce /\ g.nonce < s[q].nonce
  <2>1. PICK i \in I : g = s[i]
    OBVIOUS
  <2>2. g \in ToSet(s)
    BY <1>1, <2>1 DEF ToSet
  <2>3. g.key = s[p].key /\ g.nonce \in Nat
        /\ g.nonce - s[p].nonce = i - p /\ s[q].nonce - g.nonce = q - i
    BY <1>2, <2>1
  <2>4. i - p > 0 /\ q - i > 0
    BY <1>1, <2>1
  <2> DEFINE x == s[p].nonce
             y == g.nonce
             z == s[q].nonce
  <2>5. x \in Nat /\ y \in Nat /\ z \in Nat /\ y - x > 0 /\ z - y > 0
    BY <1>3, <2>3, <2>4
  <2> HIDE DEF x, y, z
  <2>6. x < y /\ y < z
    BY <2>5
  <2> QED
    BY <2>2, <2>3, <2>6 DEF x, y, z
<1>8. ASSUME NEW g \in ToSet(s), g.key = s[p].key, s[p].nonce < g.nonce, g.nonce < s[q].nonce
      PROVE  g \in G
  <2>1. PICK i \in 1..Len(s) : g = s[i]
    BY DEF ToSet
  <2>2. g.nonce \in Nat /\ g.nonce - s[p].nonce = i - p
    BY <1>8, <2>1, SentPositions
  <2>3. s[q].nonce - g.nonce = q - i
    BY <1>8, <2>1, SentPositions
  <2>4. i \in I
    BY <1>1, <1>3, <1>8, <2>2, <2>3
  <2> QED
    BY <2>1, <2>4
<1> QED
  BY <1>6, <1>7, <1>8

\* A frame after all those handled, of the session of the newest of them: the
\* frames between the two are lost.
LEMMA LostSameSession ==
  ASSUME NEW s \in Seq(FrameType), NEW k, NEW n, Consecutive(s, k, n),
         NEW H, H \subseteq ToSet(s), NEW f \in ToSet(s), \A h \in H : Precedes(h, f),
         NEW m \in H, \A h \in H : Precedes(h, m), m.key = f.key
  PROVE  /\ IsFiniteSet(LostOf(ToSet(s), H)) /\ f.nonce >= m.nonce
         /\ Cardinality(LostOf(ToSet(s), H \cup {f})) =
              Cardinality(LostOf(ToSet(s), H))
                + (IF f.nonce > m.nonce THEN f.nonce - m.nonce - 1 ELSE 0)
         /\ f.nonce - m.nonce < Len(s)
<1> DEFINE S == ToSet(s)
           L == LostOf(S, H)
<1>1. PICK p \in 1..Len(s) : m = s[p]
  BY DEF ToSet
<1>2. PICK q \in 1..Len(s) : f = s[q]
  BY DEF ToSet
<1>3. /\ m.nonce \in Nat /\ f.nonce \in Nat /\ m.key \in Nat
      /\ f.nonce - m.nonce = q - p
  BY <1>1, <1>2, SentPositions
<1>4. Len(s) \in Nat /\ p \in Nat /\ q \in Nat
  OBVIOUS
<1>5. f.nonce >= m.nonce
  BY <1>3 DEF Precedes
<1>6. \A g \in S : g \in FrameType
  BY DEF ToSet
<1>7. \A g \in S : g.nonce \in Nat /\ g.key \in Nat
  BY <1>6 DEF FrameType
<1>8. IsFiniteSet(L)
  <2>1. IsFiniteSet(1..Len(s))
    BY <1>4, FS_Interval
  <2>2. [i \in 1..Len(s) |-> s[i]] \in Surjection(1..Len(s), S)
    BY DEF Surjection, ToSet
  <2>3. IsFiniteSet(S)
    BY <2>1, <2>2, FS_Surjection
  <2>4. L \in SUBSET S
    BY DEF LostOf
  <2> QED
    BY <2>3, <2>4, FS_Subset
<1>9. CASE f.nonce = m.nonce
  <2>1. f = m
    BY <1>9, SentDistinct
  <2>2. LostOf(S, H \cup {f}) = L
    BY <2>1
  <2>3. Cardinality(L) \in Nat
    BY <1>8, FS_CardinalityType
  <2>4. f.nonce - m.nonce < Len(s) /\ ~(f.nonce > m.nonce)
    BY <1>3, <1>4, <1>9
  <2>5. Cardinality(L) + 0 = Cardinality(L)
    BY <2>3
  <2> QED
    BY <1>5, <1>8, <2>2, <2>4, <2>5, Zenon
<1>10. CASE f.nonce > m.nonce
  <2> DEFINE G == {s[i] : i \in (p + 1)..(q - 1)}
  <2>1. p < q
    BY <1>3, <1>4, <1>10
  <2>2. /\ IsFiniteSet(G) /\ Cardinality(G) = q - p - 1
        /\ \A g \in G : g \in S /\ g.key = m.key /\ m.nonce < g.nonce /\ g.nonce < f.nonce
        /\ \A g \in S : g.key = m.key /\ m.nonce < g.nonce /\ g.nonce < f.nonce => g \in G
    <3>1. s[p].key = s[q].key
      BY <1>1, <1>2
    <3>2. /\ IsFiniteSet(G) /\ Cardinality(G) = q - p - 1
          /\ \A g \in G : g \in ToSet(s) /\ g.key = s[p].key /\ g.nonce \in Nat
                          /\ s[p].nonce < g.nonce /\ g.nonce < s[q].nonce
          /\ \A g \in ToSet(s) : g.key = s[p].key /\ s[p].nonce < g.nonce
                                 /\ g.nonce < s[q].nonce => g \in G
      BY <2>1, <3>1, BetweenCount
    <3> HIDE DEF G
    <3> QED
      BY <1>1, <1>2, <3>2
  <2> HIDE DEF G
  <2>3. \A h \in H : h \in S /\ h.nonce \in Nat /\ h.key \in Nat
    BY <1>7
  <2>4. ASSUME NEW g \in L
        PROVE  g \in LostOf(S, H \cup {f}) /\ g \notin G
    <3>1. g \in S /\ g \notin H /\ g.nonce \in Nat
      BY <1>7 DEF LostOf
    <3>2. PICK a \in H, b \in H : a.key = g.key /\ b.key = g.key
                                  /\ a.nonce < g.nonce /\ g.nonce < b.nonce
      BY DEF LostOf
    <3>3. b.key = f.key => g.nonce < f.nonce /\ g.nonce < m.nonce
      <4>1. SUFFICES ASSUME b.key = f.key PROVE g.nonce < f.nonce /\ g.nonce < m.nonce
        OBVIOUS
      <4>2. Precedes(b, f) /\ Precedes(b, m) /\ b.key = m.key
        BY <3>2, <4>1
      <4>3. b.nonce \in Nat /\ b.key \in Nat
        BY <2>3, <3>2
      <4>4. b.nonce <= f.nonce /\ b.nonce <= m.nonce
        BY <1>3, <4>1, <4>2, <4>3 DEF Precedes
      <4> QED
        BY <1>3, <3>1, <3>2, <4>3, <4>4
    <3>4. g # f
      BY <1>3, <3>2, <3>3
    <3>5. g \notin G
      BY <1>3, <2>2, <3>1, <3>2, <3>3
    <3> QED
      BY <3>1, <3>2, <3>4, <3>5 DEF LostOf
  <2>5. ASSUME NEW g \in G
        PROVE  g \in LostOf(S, H \cup {f})
    <3>1. g \in S /\ g.key = m.key /\ m.nonce < g.nonce /\ g.nonce < f.nonce /\ g.nonce \in Nat
      BY <1>7, <2>2
    <3>2. g \notin H
      BY <1>3, <3>1 DEF Precedes
    <3>3. g # f
      BY <1>3, <3>1
    <3> QED
      BY <3>1, <3>2, <3>3 DEF LostOf
  <2>6. ASSUME NEW g \in LostOf(S, H \cup {f}), g \notin G
        PROVE  g \in L
    <3>1. g \in S /\ g \notin H /\ g # f /\ g.nonce \in Nat
      BY <1>7 DEF LostOf
    <3>2. PICK a \in H \cup {f}, b \in H \cup {f} :
            a.key = g.key /\ b.key = g.key /\ a.nonce < g.nonce /\ g.nonce < b.nonce
      BY DEF LostOf
    <3>3. a.nonce \in Nat /\ b.nonce \in Nat
      BY <1>3, <2>3
    <3>4. a # f
      BY <1>3, <2>3, <3>1, <3>2, <3>3 DEF Precedes
    <3>5. a \in H
      BY <3>4
    <3>6. CASE b \in H
      BY <3>1, <3>2, <3>5, <3>6 DEF LostOf
    <3>7. CASE b = f
      <4>1. g.key = m.key /\ g.nonce < f.nonce
        BY <3>2, <3>7
      <4>2. ~(m.nonce < g.nonce)
        BY <2>2, <2>6, <3>1, <4>1
      <4>3. g.nonce # m.nonce
        BY <3>1, <4>1, SentDistinct
      <4>4. g.nonce < m.nonce
        BY <1>3, <3>1, <4>2, <4>3
      <4> QED
        BY <3>1, <3>2, <3>5, <4>1, <4>4 DEF LostOf
    <3> QED
      BY <3>2, <3>6, <3>7
  <2>7. LostOf(S, H \cup {f}) = L \cup G /\ L \cap G = {}
    BY <2>4, <2>5, <2>6
  <2> HIDE DEF L
  <2>8. Cardinality(L \cup G) = Cardinality(L) + Cardinality(G) - Cardinality(L \cap G)
    BY <1>8, <2>2, FS_Union
  <2>9. Cardinality(L \cap G) = 0 /\ Cardinality(L) \in Nat
    BY <1>8, <2>7, FS_EmptySet, FS_CardinalityType
  <2>10. Cardinality(LostOf(S, H \cup {f})) = Cardinality(L) + (f.nonce - m.nonce - 1)
    <3>1. Cardinality(L \cup G) = Cardinality(L) + (q - p - 1)
      BY <1>4, <2>2, <2>8, <2>9
    <3>2. q - p - 1 = f.nonce - m.nonce - 1
      BY <1>3, <1>4
    <3> QED
      BY <2>7, <3>1, <3>2, Zenon
  <2>11. f.nonce - m.nonce < Len(s)
    BY <1>3, <1>4
  <2> QED
    BY <1>5, <1>8, <1>10, <2>10, <2>11, Zenon DEF L
<1> QED
  BY <1>3, <1>5, <1>9, <1>10

\* The first frame of a later session loses nothing.
LEMMA LostNextSession ==
  ASSUME NEW S, S \subseteq FrameType, NEW H, H \subseteq S, NEW f \in S,
         NEW m \in H, \A h \in H : Precedes(h, m), m.key < f.key
  PROVE  LostOf(S, H \cup {f}) = LostOf(S, H)
<1>1. \A g \in S : g.nonce \in Nat /\ g.key \in Nat
  BY DEF FrameType
<1>2. \A h \in H : h.key < f.key
  BY <1>1 DEF Precedes
<1>3. ASSUME NEW g \in LostOf(S, H)
      PROVE  g \in LostOf(S, H \cup {f})
  <2>1. PICK a \in H, b \in H : a.key = g.key /\ b.key = g.key
                                /\ a.nonce < g.nonce /\ g.nonce < b.nonce
    BY DEF LostOf
  <2>2. g # f
    BY <1>1, <1>2, <2>1
  <2> QED
    BY <2>1, <2>2 DEF LostOf
<1>4. ASSUME NEW g \in LostOf(S, H \cup {f})
      PROVE  g \in LostOf(S, H)
  <2>1. g \in S /\ g \notin H /\ g # f /\ g.nonce \in Nat
    BY <1>1 DEF LostOf
  <2>2. PICK a \in H \cup {f}, b \in H \cup {f} :
          a.key = g.key /\ b.key = g.key /\ a.nonce < g.nonce /\ g.nonce < b.nonce
    BY DEF LostOf
  <2>3. a.nonce \in Nat /\ b.nonce \in Nat /\ a.key \in Nat /\ b.key \in Nat
    BY <1>1
  <2>4. a \in H /\ b \in H
    <3>1. CASE a = f /\ b = f
      BY <2>1, <2>2, <2>3, <3>1
    <3>2. CASE a = f /\ b \in H
      BY <1>2, <2>2, <2>3, <3>2
    <3>3. CASE a \in H /\ b = f
      BY <1>2, <2>2, <2>3, <3>3
    <3> QED
      BY <3>1, <3>2, <3>3
  <2> QED
    BY <2>1, <2>2, <2>4 DEF LostOf
<1> QED
  BY <1>3, <1>4

\* Numbers of different sessions are never a countable gap apart, neither those
\* on the air nor those the running session can still get to.
Apart ==
  /\ Len(sent) <= MaxFrames + 1
  /\ \A i, j \in 1..Len(sent) : sent[i].key < sent[j].key =>
       sent[j].nonce > sent[i].nonce + MaxGap \/ sent[j].nonce <= sent[i].nonce
  /\ \A i \in 1..Len(sent) : sent[i].key < key =>
       nonce > sent[i].nonce + MaxGap \/ nonce + (MaxFrames + 1 - Len(sent)) <= sent[i].nonce

\* Sending does not bring the numbers of two sessions closer than a countable gap.
LEMMA ApartTxInjectPacket ==
  ASSUME IInv, Apart, TxInjectPacket
  PROVE  Apart'
<1> DEFINE s == sent
           t == Frames
           a == Len(s)
           b == Len(t)
<1>1. SenderOK /\ s \in Seq(FrameType) /\ Consecutive(s, key, nonce)
  BY DEF IInv, SentOK
<1>2. t \in Seq(FrameType) /\ b \in {1, 2} /\ Numbered(t, key, nonce)
  BY <1>1, FramesFacts
<1>3. sent' = s \o t /\ nonce' = nonce + b /\ key' = key /\ a < MaxFrames
  BY DEF TxInjectPacket
<1>4. /\ a \in Nat /\ b \in Nat /\ Len(sent') = a + b
      /\ \A i \in 1..a : sent'[i] = s[i]
      /\ \A i \in (a + 1)..(a + b) : sent'[i] = t[i - a] /\ i - a \in 1..b
  BY <1>1, <1>2, <1>3
<1>5. \A i \in 1..a : s[i].key \in Nat /\ s[i].nonce \in Nat /\ s[i].key <= key
  <2> TAKE i \in 1..a
  <2>1. s[i].key \in Nat /\ s[i].nonce \in Nat
    BY <1>1, SentPositions
  <2>2. s[i].key <= key
    BY <1>1 DEF Consecutive
  <2> QED
    BY <2>1, <2>2
<1>6. \A i \in 1..b : t[i].key = key /\ t[i].nonce = nonce + i - 1
  BY <1>2 DEF Numbered
<1>7. nonce \in Nat /\ key \in Nat /\ MaxFrames \in Nat /\ MaxGap \in Nat
  BY <1>1, WBTxRxAssumption DEF SenderOK, WBTxRxAssumption
<1>8. /\ \A i, j \in 1..a : s[i].key < s[j].key =>
           s[j].nonce > s[i].nonce + MaxGap \/ s[j].nonce <= s[i].nonce
      /\ \A i \in 1..a : s[i].key < key =>
           nonce > s[i].nonce + MaxGap \/ nonce + (MaxFrames + 1 - a) <= s[i].nonce
  BY DEF Apart
<1> DEFINE u == sent'
<1>9. /\ Len(u) = a + b
      /\ \A i \in 1..a : u[i] = s[i]
      /\ \A i \in (a + 1)..(a + b) : u[i].key = key /\ u[i].nonce = nonce + (i - a) - 1
  BY <1>4, <1>6
<1>10. a + b <= MaxFrames + 1
  <2>1. b \in {1, 2} /\ a < MaxFrames /\ a \in Nat
    BY <1>2, <1>3, <1>4
  <2> HIDE DEF a, b
  <2> QED
    BY <1>7, <2>1
<1> HIDE DEF s, t, a, b, u
<1>11. \A i \in 1..(a + b) : i \in 1..a \/ i \in (a + 1)..(a + b)
  BY <1>4
<1>12. ASSUME NEW i \in 1..(a + b), NEW j \in 1..(a + b), u[i].key < u[j].key
       PROVE  u[j].nonce > u[i].nonce + MaxGap \/ u[j].nonce <= u[i].nonce
  <2>1. CASE i \in 1..a /\ j \in 1..a
    BY <1>8, <1>9, <1>12, <2>1
  <2>2. CASE i \in 1..a /\ j \in (a + 1)..(a + b)
    <3>1. s[i].nonce \in Nat /\ s[i].key < key /\ u[i] = s[i]
      BY <1>5, <1>9, <1>12, <2>2
    <3>2. nonce > s[i].nonce + MaxGap \/ nonce + (MaxFrames + 1 - a) <= s[i].nonce
      BY <1>8, <2>2, <3>1
    <3>3. u[j].nonce = nonce + (j - a) - 1
      BY <1>9, <2>2
    <3>4. j - a <= MaxFrames + 1 - a /\ j - a >= 1 /\ j \in Nat
      BY <1>4, <1>7, <1>10, <2>2
    <3>5. CASE nonce > s[i].nonce + MaxGap
      BY <1>4, <1>7, <3>1, <3>3, <3>4, <3>5
    <3>6. CASE nonce + (MaxFrames + 1 - a) <= s[i].nonce
      BY <1>4, <1>7, <3>1, <3>3, <3>4, <3>6
    <3> QED
      BY <3>2, <3>5, <3>6
  <2>3. CASE i \in (a + 1)..(a + b) /\ j \in 1..a
    BY <1>5, <1>7, <1>9, <1>12, <2>3
  <2>4. CASE i \in (a + 1)..(a + b) /\ j \in (a + 1)..(a + b)
    BY <1>7, <1>9, <1>12, <2>4
  <2> QED
    BY <1>11, <2>1, <2>2, <2>3, <2>4
<1>13. ASSUME NEW i \in 1..(a + b), u[i].key < key
       PROVE  nonce + b > u[i].nonce + MaxGap
              \/ nonce + b + (MaxFrames + 1 - (a + b)) <= u[i].nonce
  <2>1. i \in 1..a
    BY <1>7, <1>9, <1>11, <1>13
  <2>2. u[i] = s[i] /\ s[i].nonce \in Nat
    BY <1>5, <1>9, <2>1
  <2>3. nonce > s[i].nonce + MaxGap \/ nonce + (MaxFrames + 1 - a) <= s[i].nonce
    BY <1>8, <1>13, <2>1, <2>2
  <2> QED
    BY <1>4, <1>7, <2>2, <2>3
<1>14. Apart'
  BY <1>3, <1>9, <1>10, <1>12, <1>13 DEF Apart, u
<1> QED
  BY <1>14

\* Nor does a restart, whose first number is far from all that were sent.
LEMMA ApartRestart ==
  ASSUME MaxFrames <= MaxGap, IInv, Apart, Restart
  PROVE  Apart'
<1> DEFINE s == sent
           a == Len(s)
<1>1. SenderOK /\ s \in Seq(FrameType) /\ Consecutive(s, key, nonce)
  BY DEF IInv, SentOK
<1>2. sent' = s /\ key' = key + 1 /\ nonce' \in NonceStart /\ FarFromSent(nonce')
  BY DEF Restart
<1>3. \A i \in 1..a : s[i].key \in Nat /\ s[i].nonce \in Nat
  BY <1>1, SentPositions
<1>4. a \in Nat /\ MaxFrames \in Nat /\ MaxGap \in Nat /\ nonce' \in Nat
  BY <1>1, <1>2, WBTxRxAssumption DEF WBTxRxAssumption
<1>5. \A i \in 1..a : nonce' < s[i].nonce - MaxGap \/ nonce' > s[i].nonce + MaxGap
  BY <1>2 DEF FarFromSent
<1>6. /\ a <= MaxFrames + 1
      /\ \A i, j \in 1..a : s[i].key < s[j].key =>
           s[j].nonce > s[i].nonce + MaxGap \/ s[j].nonce <= s[i].nonce
  BY DEF Apart
<1> HIDE DEF s, a
<1>7. ASSUME NEW i \in 1..a
      PROVE  nonce' > s[i].nonce + MaxGap \/ nonce' + (MaxFrames + 1 - a) <= s[i].nonce
  <2>1. a >= 1 /\ s[i].nonce \in Nat
    BY <1>3, <1>4
  <2>2. nonce' < s[i].nonce - MaxGap \/ nonce' > s[i].nonce + MaxGap
    BY <1>5
  <2> QED
    BY <1>4, <2>1, <2>2
<1> QED
  BY <1>2, <1>6, <1>7 DEF Apart, s, a

\* Handling a frame counts exactly the frames that it shows to be lost.
LEMMA LossCountedReceive ==
  ASSUME MaxFrames <= MaxGap, IInv, Apart, LossCounted,
         NEW f, Receive(f), OnNewSequenceNumber(Turn, f)
  PROVE  LossCounted'
<1> DEFINE S == ToSet(sent)
<1>1. SenderOK /\ SentOK /\ ReceiverOK /\ \A c \in Card : CardOK(c)
  BY DEF IInv
<1>2. /\ Turn \in Card /\ f \in S /\ f \in FrameType
      /\ \A h \in handled[Turn] : Precedes(h, f)
      /\ sent' = sent
  BY ReceiveFacts
<1>3. /\ handled' = [handled EXCEPT ![Turn] = @ \cup {f}]
      /\ missingAtReset' = missingAtReset
      /\ missing' = IF last[Turn] # NoNonce /\ f.nonce - last[Turn] > 0
                       /\ f.nonce - last[Turn] <= MaxGap
                    THEN [missing EXCEPT ![Turn] = @ + Gap(f.nonce - last[Turn])] ELSE missing
  BY DEF OnNewSequenceNumber
<1>4. /\ handled \in [Card -> SUBSET FrameType] /\ missing \in [Card -> Nat]
      /\ missingAtReset \in [Card -> Nat]
  BY <1>1 DEF ReceiverOK
<1>5. \A c \in Card : Lost(c) = LostOf(S, handled[c]) /\ Lost(c)' = LostOf(S, handled'[c])
  BY <1>2 DEF Lost, LostOf
<1>6. \A c \in Card : missing[c] - missingAtReset[c] = Cardinality(LostOf(S, handled[c]))
  BY <1>5 DEF LossCounted
<1>7. sent \in Seq(FrameType) /\ Consecutive(sent, key, nonce) /\ S \subseteq FrameType
  BY <1>1 DEF SentOK, ToSet
<1>8. MaxFrames \in Nat /\ MaxGap \in Nat
  BY WBTxRxAssumption DEF WBTxRxAssumption
<1>9. ASSUME NEW c \in Card, c # Turn
      PROVE  missing'[c] - missingAtReset'[c] = Cardinality(LostOf(S, handled'[c]))
  <2>1. missing'[c] = missing[c] /\ handled'[c] = handled[c]
    BY <1>2, <1>3, <1>4, <1>9
  <2> QED
    BY <1>3, <1>6, <2>1
<1>10. ASSUME NEW c \in Card, c = Turn
       PROVE  missing'[c] - missingAtReset'[c] = Cardinality(LostOf(S, handled'[c]))
  <2> DEFINE H == handled[c]
             l == last[c]
             counts == l # NoNonce /\ f.nonce - l > 0 /\ f.nonce - l <= MaxGap
  <2>1. H \subseteq S /\ IsLast(l, H)
    BY <1>1 DEF CardOK
  <2>2. handled'[c] = H \cup {f}
    BY <1>2, <1>3, <1>4, <1>10
  <2>3. missing'[c] = missing[c] + (IF counts THEN f.nonce - l - 1 ELSE 0)
    <3>1. missing[c] \in Nat
      BY <1>4
    <3>2. CASE counts
      <4>1. missing' = [missing EXCEPT ![c] = @ + Gap(f.nonce - l)]
        BY <1>3, <1>10, <3>2
      <4>2. missing'[c] = missing[c] + Gap(f.nonce - l)
        BY <1>4, <4>1
      <4> QED
        BY <3>2, <4>2 DEF Gap
    <3>3. CASE ~counts
      BY <1>3, <1>10, <3>1, <3>3
    <3> QED
      BY <3>2, <3>3
  <2>4. missing[c] - missingAtReset[c] = Cardinality(LostOf(S, H))
    BY <1>6
  <2>5. missing[c] \in Nat /\ missingAtReset[c] \in Nat /\ f.nonce \in Nat /\ f.key \in Nat
    BY <1>2, <1>4 DEF FrameType
  <2>6. \A h \in H : Precedes(h, f)
    BY <1>2, <1>10
  <2>7. missing'[c] - missing[c]
          = Cardinality(LostOf(S, H \cup {f})) - Cardinality(LostOf(S, H))
        /\ Cardinality(LostOf(S, H \cup {f})) \in Int
    <3>1. CASE H = {}
      <4>1. LostOf(S, H) = {}
        BY <3>1 DEF LostOf
      <4>2. LostOf(S, H \cup {f}) = {}
        <5> SUFFICES ASSUME NEW g \in LostOf(S, H \cup {f})
                     PROVE  FALSE
          OBVIOUS
        <5>1. f.nonce < g.nonce /\ g.nonce < f.nonce /\ g \in FrameType
          BY <1>7, <3>1 DEF LostOf
        <5>2. g.nonce \in Nat
          BY <5>1 DEF FrameType
        <5> QED
          BY <2>5, <5>1, <5>2
      <4>3. l = NoNonce
        BY <2>1, <3>1 DEF IsLast
      <4>4. Cardinality(LostOf(S, H)) = 0 /\ Cardinality(LostOf(S, H \cup {f})) = 0
        BY <4>1, <4>2, FS_EmptySet
      <4>5. ~counts
        BY <4>3
      <4> HIDE DEF S, H, counts, l
      <4> QED
        BY <2>3, <2>5, <4>4, <4>5
    <3>2. CASE H # {}
      <4>1. PICK m \in H : l = m.nonce /\ \A h \in H : Precedes(h, m)
        BY <2>1, <3>2 DEF IsLast
      <4>2. m \in S /\ m \in FrameType
        BY <1>7, <2>1
      <4>3. m.nonce \in Nat /\ m.key \in Nat
        BY <4>2 DEF FrameType
      <4>4. l # NoNonce
        BY <4>1, <4>3 DEF NoNonce
      <4>5. CASE m.key = f.key
        <5>1. /\ IsFiniteSet(LostOf(S, H)) /\ f.nonce >= m.nonce
              /\ Cardinality(LostOf(S, H \cup {f})) =
                   Cardinality(LostOf(S, H))
                     + (IF f.nonce > m.nonce THEN f.nonce - m.nonce - 1 ELSE 0)
              /\ f.nonce - m.nonce < Len(sent)
          BY <1>2, <1>7, <2>1, <2>6, <4>1, <4>5, LostSameSession
        <5>2. Cardinality(LostOf(S, H)) \in Nat
          BY <5>1, FS_CardinalityType
        <5>3. Len(sent) <= MaxFrames + 1 /\ Len(sent) \in Nat
          BY <1>7 DEF Apart
        <5>4. counts <=> f.nonce > m.nonce
          BY <1>8, <2>5, <4>1, <4>3, <4>4, <5>1, <5>3
        <5> HIDE DEF S, H, counts
        <5>5. CASE f.nonce > m.nonce
          <6>1. missing'[c] = missing[c] + (f.nonce - m.nonce - 1)
            BY <2>3, <4>1, <5>4, <5>5, Zenon
          <6>2. Cardinality(LostOf(S, H \cup {f})) =
                  Cardinality(LostOf(S, H)) + (f.nonce - m.nonce - 1)
            BY <5>1, <5>5, Zenon
          <6> QED
            BY <2>5, <4>3, <5>2, <6>1, <6>2
        <5>6. CASE ~(f.nonce > m.nonce)
          <6>1. missing'[c] = missing[c] + 0
            BY <2>3, <5>4, <5>6, Zenon
          <6>2. Cardinality(LostOf(S, H \cup {f})) = Cardinality(LostOf(S, H)) + 0
            BY <5>1, <5>6, Zenon
          <6> QED
            BY <2>5, <5>2, <6>1, <6>2
        <5> QED
          BY <5>5, <5>6
      <4>6. CASE m.key # f.key
        <5>1. m.key < f.key
          BY <2>6, <4>6 DEF Precedes
        <5>2. LostOf(S, H \cup {f}) = LostOf(S, H)
          BY <1>2, <1>7, <2>1, <4>1, <5>1, LostNextSession
        <5>3. f.nonce > m.nonce + MaxGap \/ f.nonce <= m.nonce
          BY <1>2, <4>2, <5>1 DEF Apart, ToSet
        <5>4. ~counts
          BY <1>8, <2>5, <4>1, <4>3, <5>3
        <5> HIDE DEF S, H, counts, l
        <5> QED
          BY <2>3, <2>4, <2>5, <5>2, <5>4
      <4> QED
        BY <4>5, <4>6
    <3> QED
      BY <3>1, <3>2
  <2>8. Cardinality(LostOf(S, H)) \in Int
    BY <2>4, <2>5
  <2>9. missing'[c] \in Int
    BY <2>3, <2>5, <2>1, <1>1, <1>10 DEF ReceiverOK, NoNonce
  <2>10. missingAtReset'[c] = missingAtReset[c]
    BY <1>3
  <2> HIDE DEF S, H
  <2> QED
    BY <2>2, <2>4, <2>5, <2>7, <2>8, <2>9, <2>10
<1> QED
  BY <1>5, <1>9, <1>10 DEF LossCounted

\* What is sent after all that a card handled is no loss yet.
LEMMA LossCountedTxInjectPacket ==
  ASSUME IInv, LossCounted, TxInjectPacket
  PROVE  LossCounted'
<1>1. SenderOK /\ SentOK /\ \A c \in Card : CardOK(c)
  BY DEF IInv
<1>2. /\ sent' = sent \o Frames
      /\ UNCHANGED <<missing, missingAtReset, handled>>
  BY DEF TxInjectPacket, lossVars
<1>3. sent \in Seq(FrameType) /\ Frames \in Seq(FrameType) /\ Numbered(Frames, key, nonce)
  BY <1>1, FramesFacts DEF SentOK
<1>4. key \in Nat /\ nonce \in Nat
  BY <1>1, WBTxRxAssumption DEF SenderOK, WBTxRxAssumption
<1>5. ToSet(sent') = ToSet(sent) \cup ToSet(Frames)
  <2>1. /\ Len(sent') = Len(sent) + Len(Frames)
        /\ Len(sent) \in Nat /\ Len(Frames) \in Nat
        /\ \A i \in 1..Len(sent) : sent'[i] = sent[i]
        /\ \A i \in 1..Len(Frames) : sent'[Len(sent) + i] = Frames[i]
        /\ \A i \in (Len(sent) + 1)..(Len(sent) + Len(Frames)) :
             sent'[i] = Frames[i - Len(sent)] /\ i - Len(sent) \in 1..Len(Frames)
    BY <1>2, <1>3
  <2>2. DOMAIN sent = 1..Len(sent) /\ DOMAIN Frames = 1..Len(Frames) /\ DOMAIN sent' = 1..Len(sent')
    BY <1>2, <1>3
  <2>3. \A i \in 1..Len(sent) : i \in DOMAIN sent' /\ sent'[i] = sent[i]
    BY <2>1, <2>2
  <2>4. \A i \in 1..Len(Frames) : Len(sent) + i \in DOMAIN sent' /\ sent'[Len(sent) + i] = Frames[i]
    BY <2>1, <2>2
  <2>5. \A i \in DOMAIN sent' :
          \/ i \in 1..Len(sent) /\ sent'[i] = sent[i]
          \/ i - Len(sent) \in 1..Len(Frames) /\ sent'[i] = Frames[i - Len(sent)]
    <3> TAKE i \in DOMAIN sent'
    <3>1. i \in 1..Len(sent) \/ i \in (Len(sent) + 1)..(Len(sent) + Len(Frames))
      BY <2>1, <2>2
    <3> QED
      BY <2>1, <3>1
  <2>6. ToSet(sent) \subseteq ToSet(sent')
    BY <2>2, <2>3, Zenon DEF ToSet
  <2>7. ToSet(Frames) \subseteq ToSet(sent')
    BY <2>2, <2>4, Zenon DEF ToSet
  <2>8. ToSet(sent') \subseteq ToSet(sent) \cup ToSet(Frames)
    BY <2>2, <2>5, Zenon DEF ToSet
  <2> QED
    BY <2>6, <2>7, <2>8
<1>6. \A g \in ToSet(Frames) : g.key = key /\ g.nonce \in Nat /\ g.nonce >= nonce
  <2> TAKE g \in ToSet(Frames)
  <2>1. PICK i \in 1..Len(Frames) : g = Frames[i]
    BY <1>3 DEF ToSet
  <2>2. g.key = key /\ g.nonce = nonce + i - 1 /\ Len(Frames) \in Nat
    BY <1>3, <2>1 DEF Numbered
  <2> QED
    BY <1>4, <2>2
<1>7. ASSUME NEW c \in Card
      PROVE  Lost(c)' = Lost(c)
  <2>1. handled[c] \subseteq ToSet(sent) /\ handled'[c] = handled[c]
    BY <1>1, <1>2 DEF CardOK
  <2>2. ASSUME NEW g \in ToSet(Frames), NEW b \in handled[c], b.key = g.key
        PROVE  ~(g.nonce < b.nonce)
    <3>1. b \in FrameType /\ (b.key = key => b.nonce < nonce)
      BY <1>1, <2>1, SentBefore
    <3>2. b.nonce \in Nat
      BY <3>1 DEF FrameType
    <3> QED
      BY <1>4, <1>6, <2>2, <3>1, <3>2
  <2> QED
    BY <1>5, <2>1, <2>2 DEF Lost
<1> QED
  BY <1>2, <1>7 DEF LossCounted

\* What LossCounted rests on.
LossInv == IInv /\ Apart /\ LossCounted

\* Nothing is lost at first.
LEMMA InitLossInv == Init => LossInv
<1> SUFFICES ASSUME Init
             PROVE  LossInv
  OBVIOUS
<1>1. sent = <<>> /\ Len(sent) = 0 /\ MaxFrames \in Nat
  BY WBTxRxAssumption DEF Init, WBTxRxAssumption
<1>2. Apart
  BY <1>1 DEF Apart
<1>3. ASSUME NEW c \in Card
      PROVE  missing[c] - missingAtReset[c] = Cardinality(Lost(c))
  <2>1. missing[c] = 0 /\ missingAtReset[c] = 0
    BY DEF Init
  <2>2. Lost(c) = {}
    BY DEF Init, Lost
  <2> QED
    BY <2>1, <2>2, FS_EmptySet
<1> QED
  BY <1>2, <1>3, InitIInv DEF LossInv, LossCounted

\* Every step keeps it, as long as no session has more frames than the largest
\* gap that counts.
LEMMA NextLossInv ==
  ASSUME MaxFrames <= MaxGap, LossInv, [Next]_vars
  PROVE  LossInv'
<1>1. IInv /\ Apart /\ LossCounted
  BY DEF LossInv
<1>2. IInv'
  BY <1>1, NextIInv
<1>3. ASSUME UNCHANGED <<sent, key, nonce>>
      PROVE  Apart'
  BY <1>1, <1>3 DEF Apart
<1>4. ASSUME UNCHANGED <<sent, missing, missingAtReset, handled>>
      PROVE  LossCounted'
  BY <1>1, <1>4 DEF LossCounted, Lost
<1>5. CASE TxInjectPacket
  BY <1>1, <1>2, <1>5, ApartTxInjectPacket, LossCountedTxInjectPacket DEF LossInv
<1>6. CASE Restart
  BY <1>1, <1>2, <1>4, <1>6, ApartRestart DEF LossInv, Restart, lossVars
<1>7. CASE RxResetStats
  <2>1. Apart'
    BY <1>3, <1>7 DEF RxResetStats, senderVars
  <2>2. ASSUME NEW c \in Card
        PROVE  missing'[c] - missingAtReset'[c] = Cardinality(Lost(c)')
    <3>1. missing'[c] = missing[c] /\ missingAtReset'[c] = missing[c] /\ handled'[c] = {}
      BY <1>7 DEF RxResetStats
    <3>2. Lost(c)' = {}
      BY <3>1 DEF Lost
    <3>3. missing[c] \in Nat
      BY <1>1 DEF IInv, ReceiverOK
    <3> QED
      BY <3>1, <3>2, <3>3, FS_EmptySet
  <2> QED
    BY <1>2, <2>1, <2>2 DEF LossInv, LossCounted
<1>8. ASSUME NEW f, ReceiveSessionKey(f) \/ ReceiveData(f)
      PROVE  LossInv'
  <2>1. Receive(f) /\ OnNewSequenceNumber(Turn, f)
    BY <1>8 DEF ReceiveSessionKey, ReceiveData
  <2>2. Apart'
    BY <1>1, <1>3, <2>1, ReceiveFacts
  <2> QED
    BY <1>1, <1>2, <2>1, <2>2, LossCountedReceive DEF LossInv
<1>9. ASSUME NEW f, RejectData(f)
      PROVE  LossInv'
  <2>1. Receive(f) /\ UNCHANGED <<missing, missingAtReset, handled>>
    BY <1>9 DEF RejectData, lossVars
  <2>2. UNCHANGED <<sent, key, nonce>>
    BY <1>1, <2>1, ReceiveFacts
  <2> QED
    BY <1>2, <1>3, <1>4, <2>1, <2>2 DEF LossInv
<1>10. ASSUME UNCHANGED <<sent, key, nonce, missing, missingAtReset, handled>>
       PROVE  LossInv'
  BY <1>2, <1>3, <1>4, <1>10 DEF LossInv
<1>11. CASE AnnounceDue \/ SetPassiveMode \/ SetEnableRedundantTx
  BY <1>10, <1>11 DEF AnnounceDue, SetPassiveMode, SetEnableRedundantTx, lossVars
<1>12. CASE Poll \/ Drained
  BY <1>10, <1>12 DEF Poll, Drained, senderVars, lossVars
<1>13. CASE UNCHANGED vars
  BY <1>10, <1>13 DEF vars, senderVars, lossVars
<1> QED
  BY <1>5, <1>6, <1>7, <1>8, <1>9, <1>11, <1>12, <1>13 DEF Next

\* The loss every card counts is the number of frames it missed between those it
\* handled, over session changes, duplicates on several cards and resets; sessions
\* of more than MaxGap frames are beyond what the code counts (a larger gap in one
\* of them is taken for a restart).
THEOREM LossCountedAlways == MaxFrames <= MaxGap => (Spec => []LossCounted)
<1> SUFFICES ASSUME MaxFrames <= MaxGap
             PROVE  Spec => []LossCounted
  OBVIOUS
<1>1. LossInv /\ [Next]_vars => LossInv'
  BY NextLossInv
<1>2. LossInv => LossCounted
  BY DEF LossInv
<1> QED
  BY InitLossInv, <1>1, <1>2, PTL DEF Spec
=============================================================================
