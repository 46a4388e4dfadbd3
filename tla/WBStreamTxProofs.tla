--------------------------- MODULE WBStreamTxProofs ---------------------------
(***************************************************************************)
(* Proofs about a sending stream, for every capacity, history limit, mask of *)
(* retransmitted types and any number of elements and requests.              *)
(*                                                                         *)
(* The user's half of the state (queue and counters) and the senders' half   *)
(* (numbers, history, requests, what is on the air) do not depend on each    *)
(* other: each has an invariant of its own.                                  *)
(***************************************************************************)
EXTENDS WBStreamTx, TLAPS

ElementType == [fragments : Nat \ {0}, packets : Nat, packet_type : PacketType]
StatsType == [{"input", "dropped", "frames", "injected"} -> Nat]
GoneType == [lost : Seq(ElementType), taken : Seq(ElementType)]
Packet == [packet_type : PacketType, seq : Nat, again : BOOLEAN]

-----------------------------------------------------------------------------
(* The invariants                                                            *)

CountersOK ==
  /\ stats \in StatsType
  /\ gone \in GoneType

\* An element is taken late only by a wait begun while the flag was set.
LoopOK ==
  /\ loop \in {"test", "wait", "end"} /\ late \in {0, 1}
  /\ run \/ loop = "wait" => late = 0

\* Queue, counters, the loop and the element being processed.
UserInv ==
  /\ enable_fec \in BOOLEAN /\ run \in BOOLEAN /\ LoopOK
  /\ queue \in Seq(ElementType) /\ Len(queue) <= QueueSize
  /\ CountersOK
  /\ work \in [packet_type : PacketType, left : Nat]
  /\ PacketsAccounted /\ FramesAccounted

\* Where a thread can be in send_packet.
ThreadOK(x) ==
  \/ x = AtRest
  \/ \E p \in Packet : x = [pc |-> "inject", packet |-> p]
  \/ x = [pc |-> "load"]
  \/ \E n \in Nat : x = [pc |-> "store", count |-> n]

\* The mutex is held exactly while the receive thread answers; the processing
\* thread never sends an answer.
ThreadsOK ==
  /\ thread = [th \in Thread |-> thread[th]]
  /\ ThreadOK(thread["process"]) /\ ThreadOK(thread["rx"])
  /\ locked \in BOOLEAN /\ (locked <=> thread["rx"] # AtRest)
  /\ thread["process"].pc = "inject" =>
       /\ ~thread["process"].packet.again
       /\ thread["process"].packet.seq < seqNr[thread["process"].packet.packet_type]
  /\ thread["rx"].pc = "inject" => thread["rx"].packet.again

NumbersOK ==
  /\ seqNr \in [PacketType -> Nat] /\ limit \in [PacketType -> Nat \ {0}]
  /\ history \in [PacketType -> Seq(Nat)] /\ seen \in [PacketType -> SUBSET Nat]
  /\ early \in [PacketType -> SUBSET Nat]
  /\ air \in Seq(Packet)

\* A history of the numbers up to n, at most l long.
TailOf(h, n, l) ==
  /\ Len(h) <= l
  /\ \A i \in 1..Len(h) : h[i] = n - Len(h) + i - 1

HistoryOK ==
  \A t \in PacketType :
    /\ TailOf(history[t], seqNr[t], limit[t])
    /\ IF RetransmissionEnabled(t) THEN seqNr[t] > 0 => history[t] # <<>> ELSE history[t] = <<>>

\* A packet was numbered; an answer is remembered as long as its packet is, and
\* its request did not come early.
PacketOK(p, sq, h, sn, ea) ==
  /\ p.seq < sq[p.packet_type]
  /\ p.again /\ p.seq \in ToSet(h[p.packet_type]) => p.seq \in sn[p.packet_type]
  /\ p.again => p.seq \notin ea[p.packet_type]

\* What is remembered did come early, or was answered if its packet is still
\* there: by a packet on the air, or by the one of x.
SeenOK(sq, h, sn, ea, a, x) ==
  \A t \in PacketType : \A n \in sn[t] : n \notin ea[t] =>
    /\ n < sq[t]
    /\ n \in ToSet(h[t]) =>
         \/ \E i \in 1..Len(a) : a[i] = [packet_type |-> t, seq |-> n, again |-> TRUE]
         \/ x = [pc |-> "inject", packet |-> [packet_type |-> t, seq |-> n, again |-> TRUE]]

\* An early request is remembered until its packet came and left.
EarlyOK(sq, h, sn, ea) ==
  \A t \in PacketType : \A n \in ea[t] : n >= sq[t] \/ n \in ToSet(h[t]) => n \in sn[t]

PacketsOK ==
  /\ \A i \in 1..Len(air) : PacketOK(air[i], seqNr, history, seen, early)
  /\ thread["rx"].pc = "inject" => PacketOK(thread["rx"].packet, seqNr, history, seen, early)

\* No answer is on the air twice, or on the air and about to be sent.
OnceOK(a, x) ==
  /\ \A i, j \in 1..Len(a) : a[i].again /\ a[i] = a[j] => i = j
  /\ x.pc = "inject" => \A i \in 1..Len(a) : a[i] # x.packet

AnswersOK ==
  /\ PacketsOK /\ OnceOK(air, thread["rx"])
  /\ SeenOK(seqNr, history, seen, early, air, thread["rx"]) /\ EarlyOK(seqNr, history, seen, early)

SendInv == ThreadsOK /\ NumbersOK /\ HistoryOK /\ AnswersOK

\* The inductive invariant.
IInv == UserInv /\ SendInv

-----------------------------------------------------------------------------
(* Threads and packets                                                       *)

\* What a thread holds where it is.
LEMMA ThreadCases ==
  ASSUME NEW x, ThreadOK(x)
  PROVE  /\ x.pc = "inject" => x.packet \in Packet /\ x = [pc |-> "inject", packet |-> x.packet]
         /\ x.pc = "store" => x.count \in Nat
         /\ x.pc \in {"rest", "inject", "load", "store"}
         /\ x # AtRest <=> x.pc # "rest"
<1>1. CASE x = AtRest
  BY <1>1 DEF AtRest
<1>2. CASE \E p \in Packet : x = [pc |-> "inject", packet |-> p]
  <2>1. PICK p \in Packet : x = [pc |-> "inject", packet |-> p]
    BY <1>2
  <2>2. x.pc = "inject" /\ x.packet = p
    BY <2>1
  <2> QED
    BY <2>1, <2>2 DEF AtRest
<1>3. CASE x = [pc |-> "load"]
  BY <1>3 DEF AtRest
<1>4. CASE \E n \in Nat : x = [pc |-> "store", count |-> n]
  <2>1. PICK n \in Nat : x = [pc |-> "store", count |-> n]
    BY <1>4
  <2>2. x.pc = "store" /\ x.count = n
    BY <2>1
  <2> QED
    BY <2>2 DEF AtRest
<1> QED
  BY <1>1, <1>2, <1>3, <1>4 DEF ThreadOK

-----------------------------------------------------------------------------
(* The user's half                                                           *)

\* What is enqueued is an element of the queue's type.
LEMMA ElementTyped ==
  ASSUME NEW i \in Item, NEW t \in PacketType
  PROVE  Element(i, t) \in ElementType /\ i.fragments \in Nat /\ i.packets \in Nat
<1>1. i \in [fragments : Nat \ {0}, packets : Nat]
  BY WBStreamTxAssumption DEF WBStreamTxAssumption
<1>2. i.fragments \in Nat \ {0} /\ i.packets \in Nat
  BY <1>1
<1> QED
  BY <1>2 DEF Element, ElementType

\* The capacity is respected by both kinds of enqueue.
LEMMA ClearedQueueFacts ==
  ASSUME UserInv, NEW i \in Item, NEW t \in PacketType
  PROVE  /\ ClearedQueue(i, t) \in Seq(ElementType)
         /\ Len(ClearedQueue(i, t)) = Len(queue) + 1 - NumDropped
         /\ NumDropped \in Nat
         /\ Len(ClearedQueue(i, t)) <= QueueSize
<1>1. queue \in Seq(ElementType) /\ Len(queue) \in Nat /\ Len(queue) <= QueueSize
  BY DEF UserInv
<1>2. QueueSize \in Nat /\ QueueSize >= 1
  BY WBStreamTxAssumption DEF WBStreamTxAssumption
<1> DEFINE e == Element(i, t)
<1>3. e \in ElementType
  BY ElementTyped
<1> HIDE DEF e
<1>4. CASE Full
  <2>1. ClearedQueue(i, t) = <<e>> /\ NumDropped = Len(queue)
    BY <1>4 DEF ClearedQueue, NumDropped, e
  <2>2. <<e>> \in Seq(ElementType) /\ Len(<<e>>) = 1
    BY <1>3
  <2> QED
    BY <1>1, <1>2, <2>1, <2>2
<1>5. CASE ~Full
  <2>1. ClearedQueue(i, t) = Append(queue, e) /\ NumDropped = 0
    BY <1>5 DEF ClearedQueue, NumDropped, e
  <2>2. Append(queue, e) \in Seq(ElementType) /\ Len(Append(queue, e)) = Len(queue) + 1
    BY <1>1, <1>3
  <2>3. Len(queue) < QueueSize
    BY <1>1, <1>2, <1>5 DEF Full
  <2> QED
    BY <1>1, <1>2, <2>1, <2>2, <2>3
<1> QED
  BY <1>4, <1>5

\* The user's half before a step.
LEMMA UserFacts ==
  ASSUME UserInv
  PROVE  /\ stats \in StatsType /\ gone \in GoneType
         /\ stats.input \in Nat /\ stats.dropped \in Nat /\ stats.frames \in Nat
         /\ gone.lost \in Seq(ElementType) /\ gone.taken \in Seq(ElementType)
         /\ Len(gone.lost) \in Nat /\ Len(gone.taken) \in Nat /\ Len(queue) \in Nat
<1>1. /\ stats \in StatsType
      /\ gone \in GoneType
      /\ queue \in Seq(ElementType)
  BY DEF UserInv, CountersOK, LoopOK
<1>2. gone.lost \in Seq(ElementType) /\ gone.taken \in Seq(ElementType)
  BY <1>1 DEF GoneType
<1> QED
  BY <1>1, <1>2 DEF StatsType

\* What a step does to the accounts: r packets come in, d of them or of those
\* queued are lost, t are taken.
PacketBalance(d, r, t) ==
  /\ Len(gone'.lost) = Len(gone.lost) + d
  /\ stats'.dropped = stats.dropped + d
  /\ Len(queue') + d + t = Len(queue) + r
  /\ Len(gone'.taken) = Len(gone.taken) + t
  /\ stats'.input = stats.input + r

FrameBalance(d) ==
  Len(gone'.lost) = Len(gone.lost) + d /\ stats'.frames = stats.frames + d

\* The arithmetic of a balance: what is counted, queued and gone adds up.
LEMMA BalanceSum ==
  ASSUME NEW p \in Nat, NEW q \in Nat, NEW g \in Nat, NEW n \in Nat, NEW d \in Nat, NEW r \in Nat,
         NEW t \in Nat, NEW u \in Nat, n = p + q + g, u + d + t = q + r
  PROVE  n + r = (p + d) + u + (g + t)
OBVIOUS

\* The accounts balance after a step if what it does balances.
LEMMA Accounts ==
  ASSUME UserInv, UNCHANGED enable_fec, NEW d \in Nat, NEW r \in Nat, NEW t \in Nat,
         queue' \in Seq(ElementType),
         ~enable_fec => PacketBalance(d, r, t),
         enable_fec => FrameBalance(d)
  PROVE  PacketsAccounted' /\ FramesAccounted'
<1>0. /\ stats.input \in Nat /\ stats.dropped \in Nat /\ stats.frames \in Nat
      /\ Len(gone.lost) \in Nat /\ Len(gone.taken) \in Nat /\ Len(queue) \in Nat
      /\ Len(queue') \in Nat
  BY UserFacts
<1>1. CASE enable_fec
  <2>1. stats.frames = Len(gone.lost)
    BY <1>1 DEF UserInv, FramesAccounted
  <2>2. stats'.frames = Len(gone'.lost)
    BY <1>1, <2>1 DEF FrameBalance
  <2> QED
    BY <1>1, <2>2 DEF PacketsAccounted, FramesAccounted
<1>2. CASE ~enable_fec
  <2>1. /\ stats.dropped = Len(gone.lost)
        /\ stats.input = stats.dropped + Len(queue) + Len(gone.taken)
    BY <1>2 DEF UserInv, PacketsAccounted
  <2>2. PacketBalance(d, r, t)
    BY <1>2
  <2>3. stats'.dropped = Len(gone'.lost)
    BY <2>1, <2>2 DEF PacketBalance
  <2>4. stats'.input = stats'.dropped + Len(queue') + Len(gone'.taken)
    <3>1. /\ stats'.dropped = stats.dropped + d
          /\ Len(queue') + d + t = Len(queue) + r
          /\ Len(gone'.taken) = Len(gone.taken) + t
          /\ stats'.input = stats.input + r
      BY <2>2 DEF PacketBalance
    <3> DEFINE p == stats.dropped
               q == Len(queue)
               g == Len(gone.taken)
               n == stats.input
               u == Len(queue')
    <3>3. /\ p \in Nat /\ q \in Nat /\ g \in Nat /\ n \in Nat /\ u \in Nat
          /\ n = p + q + g /\ u + d + t = q + r
      BY <1>0, <2>1, <3>1
    <3> HIDE DEF p, q, g, n, u
    <3>4. n + r = (p + d) + u + (g + t)
      BY <3>3, BalanceSum
    <3>2. stats.input + r = (stats.dropped + d) + Len(queue') + (Len(gone.taken) + t)
      BY <3>4 DEF p, q, g, n, u
    <3> QED
      BY <3>1, <3>2
  <2> QED
    BY <1>2, <2>3, <2>4 DEF PacketsAccounted, FramesAccounted
<1> QED
  BY <1>1, <1>2 DEF UserInv

\* An enqueue that refuses.
LEMMA TryEnqueueStep ==
  ASSUME UserInv, NEW i \in Item, NEW t \in PacketType, TryEnqueue(i, t)
  PROVE  UserInv'
<1> DEFINE e == Element(i, t)
           n == stats.input + i.fragments
<1>0. stats \in StatsType /\ gone \in GoneType
  BY UserFacts
<1>1. e \in ElementType /\ i.fragments \in Nat /\ n \in Nat
  BY ElementTyped, UserFacts
<1>2. UNCHANGED <<enable_fec, work, run, loop, late>> /\ (~enable_fec => i.fragments = 1)
  BY DEF TryEnqueue, Provide
<1>3. queue \in Seq(ElementType) /\ Len(queue) \in Nat /\ QueueSize \in Nat
  BY WBStreamTxAssumption DEF UserInv, WBStreamTxAssumption
<1>4. CASE Full
  <2> DEFINE x == Append(gone.lost, e)
             b == stats.dropped + i.fragments
             c == IF enable_fec THEN stats.frames + 1 ELSE stats.frames
  <2>1. /\ stats' = [stats EXCEPT !.input = n, !.dropped = b, !.frames = c] /\ queue' = queue
        /\ gone' = [gone EXCEPT !.lost = x]
    BY <1>4 DEF TryEnqueue, Refusal
  <2>2. x \in Seq(ElementType) /\ Len(x) = Len(gone.lost) + 1 /\ b \in Nat /\ c \in Nat
    BY <1>1, UserFacts
  <2> HIDE DEF n, x, b, c
  <2>3. gone' \in GoneType /\ gone'.lost = x /\ gone'.taken = gone.taken
    BY <1>0, <2>1, <2>2 DEF GoneType
  <2>4. stats' \in StatsType /\ stats'.input = n /\ stats'.dropped = b /\ stats'.frames = c
    BY <1>0, <1>1, <2>1, <2>2 DEF StatsType
  <2>5. ~enable_fec => PacketBalance(1, 1, 0)
    BY <1>2, <1>3, <2>1, <2>2, <2>3, <2>4, UserFacts DEF PacketBalance, n, b
  <2>6. enable_fec => FrameBalance(1)
    BY <2>2, <2>3, <2>4 DEF FrameBalance, c
  <2>7. PacketsAccounted' /\ FramesAccounted'
    BY <1>2, <1>3, <2>1, <2>5, <2>6, Accounts
  <2> QED
    BY <1>2, <2>1, <2>3, <2>4, <2>7 DEF UserInv, CountersOK, LoopOK
<1>5. CASE ~Full
  <2>1. /\ stats' = [stats EXCEPT !.input = n] /\ gone' = gone
        /\ queue' = Append(queue, e)
    BY <1>5 DEF TryEnqueue
  <2> HIDE DEF n
  <2>2. /\ stats' \in StatsType /\ stats'.input = n
        /\ stats'.dropped = stats.dropped /\ stats'.frames = stats.frames
    BY <1>0, <1>1, <2>1 DEF StatsType
  <2>3. queue' \in Seq(ElementType) /\ Len(queue') = Len(queue) + 1 /\ Len(queue') <= QueueSize
    <3>1. Len(queue) < QueueSize
      BY <1>3, <1>5 DEF Full
    <3> QED
      BY <1>1, <1>3, <2>1, <3>1
  <2>4. ~enable_fec => PacketBalance(0, 1, 0)
    BY <1>2, <1>3, <2>1, <2>2, <2>3, UserFacts DEF PacketBalance, n
  <2>5. enable_fec => FrameBalance(0)
    BY <2>1, <2>2, UserFacts DEF FrameBalance
  <2>6. PacketsAccounted' /\ FramesAccounted'
    BY <1>2, <2>3, <2>4, <2>5, Accounts
  <2> QED
    BY <1>2, <2>1, <2>2, <2>3, <2>6 DEF UserInv, CountersOK, LoopOK
<1> QED
  BY <1>4, <1>5

\* A block that is rejected is only counted as input.
LEMMA RejectBlockStep ==
  ASSUME UserInv, NEW i \in Item, RejectBlock(i)
  PROVE  UserInv'
<1> DEFINE n == stats.input + i.fragments
<1>0. stats \in StatsType /\ gone \in GoneType
  BY UserFacts
<1>1. /\ UNCHANGED <<enable_fec, work, run, loop, late, queue, gone>> /\ enable_fec
      /\ stats' = [stats EXCEPT !.input = n]
  BY DEF RejectBlock, Provide
<1>2. i \in [fragments : Nat \ {0}, packets : Nat]
  BY WBStreamTxAssumption DEF WBStreamTxAssumption
<1>3. n \in Nat
  BY <1>2, UserFacts
<1> HIDE DEF n
<1>4. stats' \in StatsType /\ stats'.frames = stats.frames
  BY <1>0, <1>1, <1>3 DEF StatsType
<1>5. PacketsAccounted' /\ FramesAccounted'
  BY <1>1, <1>4 DEF UserInv, PacketsAccounted, FramesAccounted
<1> QED
  BY <1>1, <1>4, <1>5 DEF UserInv, CountersOK, LoopOK

\* What a clearing enqueue throws away is lost.
LEMMA ClearedLost ==
  ASSUME UserInv, gone' = [gone EXCEPT !.lost = IF Full THEN @ \o queue ELSE @]
  PROVE  /\ gone' \in GoneType
         /\ Len(gone'.lost) = Len(gone.lost) + NumDropped
         /\ gone'.taken = gone.taken
<1> DEFINE x == gone.lost \o queue
           y == gone.lost
<1>1. queue \in Seq(ElementType) /\ Len(queue) \in Nat
  BY DEF UserInv
<1>2. x \in Seq(ElementType) /\ Len(x) = Len(gone.lost) + Len(queue) /\ y \in Seq(ElementType)
  BY <1>1, UserFacts
<1>3. CASE Full
  <2>1. gone' = [gone EXCEPT !.lost = x] /\ NumDropped = Len(queue)
    BY <1>3 DEF NumDropped
  <2> HIDE DEF x
  <2>2. gone' \in GoneType /\ gone'.lost = x /\ gone'.taken = gone.taken
    BY <1>2, <2>1, UserFacts DEF GoneType
  <2> QED
    BY <1>2, <2>1, <2>2
<1>4. CASE ~Full
  <2>1. gone' = [gone EXCEPT !.lost = y] /\ NumDropped = 0
    BY <1>4 DEF NumDropped
  <2> HIDE DEF y
  <2>2. gone' \in GoneType /\ gone'.lost = y /\ gone'.taken = gone.taken
    BY <1>2, <2>1, UserFacts DEF GoneType
  <2>3. Len(gone.lost) + 0 = Len(gone.lost)
    BY UserFacts
  <2> QED
    BY <2>1, <2>2, <2>3 DEF y
<1> QED
  BY <1>3, <1>4

\* A clearing enqueue of a packet.
LEMMA EnqueuePacketDroppingStep ==
  ASSUME UserInv, NEW i \in Item, NEW t \in PacketType, EnqueuePacketDropping(i, t)
  PROVE  UserInv'
<1> DEFINE n == stats.input + i.fragments
           b == stats.dropped + NumDropped
<1>0. stats \in StatsType /\ gone \in GoneType
  BY UserFacts
<1>1. /\ UNCHANGED <<enable_fec, work, run, loop, late>> /\ ~enable_fec /\ i.fragments = 1
      /\ queue' = ClearedQueue(i, t)
      /\ stats' = [stats EXCEPT !.input = n, !.dropped = b]
      /\ gone' = [gone EXCEPT !.lost = IF Full THEN @ \o queue ELSE @]
  BY DEF EnqueuePacketDropping, Provide
<1>2. /\ gone' \in GoneType
      /\ Len(gone'.lost) = Len(gone.lost) + NumDropped
      /\ gone'.taken = gone.taken
  BY <1>1, ClearedLost
<1>3. /\ queue' \in Seq(ElementType) /\ Len(queue') = Len(queue) + 1 - NumDropped
      /\ NumDropped \in Nat /\ Len(queue') <= QueueSize
  BY <1>1, ClearedQueueFacts
<1>4. n \in Nat /\ b \in Nat /\ n = stats.input + 1
  <2>1. stats.input \in Nat /\ stats.dropped \in Nat
    BY UserFacts
  <2> QED
    BY <1>1, <1>3, <2>1
<1> HIDE DEF n, b
<1>5. stats' \in StatsType /\ stats'.input = n /\ stats'.dropped = b
  BY <1>0, <1>1, <1>4 DEF StatsType
<1>6. PacketBalance(NumDropped, 1, 0)
  BY <1>2, <1>3, <1>4, <1>5, UserFacts DEF PacketBalance, b
<1>7. PacketsAccounted' /\ FramesAccounted'
  BY <1>1, <1>3, <1>6, Accounts
<1> QED
  BY <1>1, <1>2, <1>3, <1>5, <1>7 DEF UserInv, CountersOK, LoopOK

\* A clearing enqueue of a block.
LEMMA EnqueueBlockDroppingStep ==
  ASSUME UserInv, NEW i \in Item, EnqueueBlockDropping(i)
  PROVE  UserInv'
<1>0. 0 \in PacketType /\ stats \in StatsType /\ gone \in GoneType
  BY WBStreamTxAssumption, UserFacts DEF WBStreamTxAssumption
<1> DEFINE n == stats.input + i.fragments
           b == IF NumDropped # 0 THEN stats.dropped + i.fragments ELSE stats.dropped
           c == stats.frames + NumDropped
<1>1. /\ UNCHANGED <<enable_fec, work, run, loop, late>> /\ enable_fec
      /\ queue' = ClearedQueue(i, 0)
      /\ stats' = [stats EXCEPT !.input = n, !.dropped = b, !.frames = c]
      /\ gone' = [gone EXCEPT !.lost = IF Full THEN @ \o queue ELSE @]
  BY DEF EnqueueBlockDropping, Provide
<1>2. /\ gone' \in GoneType
      /\ Len(gone'.lost) = Len(gone.lost) + NumDropped
  BY <1>1, ClearedLost
<1>3. /\ queue' \in Seq(ElementType) /\ NumDropped \in Nat /\ Len(queue') <= QueueSize
  BY <1>0, <1>1, ClearedQueueFacts
<1>4. n \in Nat /\ b \in Nat /\ c \in Nat
  <2>1. i.fragments \in Nat
    BY <1>0, ElementTyped
  <2>2. stats.input \in Nat /\ stats.dropped \in Nat /\ stats.frames \in Nat
    BY UserFacts
  <2>3. n \in Nat /\ c \in Nat
    BY <1>3, <2>1, <2>2
  <2>4. b \in Nat
    BY <2>1, <2>2
  <2> QED
    BY <2>3, <2>4
<1> HIDE DEF n, b, c
<1>5. stats' \in StatsType /\ stats'.frames = c
  BY <1>0, <1>1, <1>4 DEF StatsType
<1>6. FrameBalance(NumDropped)
  BY <1>2, <1>5 DEF FrameBalance, c
<1>7. PacketsAccounted' /\ FramesAccounted'
  BY <1>1, <1>3, <1>6, Accounts
<1> QED
  BY <1>1, <1>2, <1>3, <1>5, <1>7 DEF UserInv, CountersOK, LoopOK

\* The processing thread takes the oldest element.
LEMMA DequeueStep ==
  ASSUME UserInv, Dequeue
  PROVE  UserInv'
<1> DEFINE x == Append(gone.taken, queue[1])
<1>0. stats \in StatsType /\ gone \in GoneType
  BY UserFacts
<1>1. /\ UNCHANGED <<enable_fec, run, stats>> /\ queue # <<>>
      /\ work' = [packet_type |-> queue[1].packet_type, left |-> queue[1].packets]
      /\ queue' = Tail(queue)
      /\ gone' = [gone EXCEPT !.taken = x]
  BY DEF Dequeue
<1>2. queue \in Seq(ElementType) /\ Len(queue) <= QueueSize /\ QueueSize \in Nat
  BY WBStreamTxAssumption DEF UserInv, WBStreamTxAssumption
<1>3. /\ queue[1] \in ElementType /\ Tail(queue) \in Seq(ElementType)
      /\ Len(Tail(queue)) = Len(queue) - 1 /\ Len(queue) \in Nat
  BY <1>1, <1>2
<1>4. work' \in [packet_type : PacketType, left : Nat]
  <2>1. queue[1].packet_type \in PacketType /\ queue[1].packets \in Nat
    BY <1>3 DEF ElementType
  <2> QED
    BY <1>1, <2>1
<1>5. x \in Seq(ElementType) /\ Len(x) = Len(gone.taken) + 1
  BY <1>3, UserFacts
<1> HIDE DEF x
<1>6. gone' \in GoneType /\ gone'.lost = gone.lost /\ gone'.taken = x
  BY <1>0, <1>1, <1>5 DEF GoneType
<1>7. PacketBalance(0, 0, 1) /\ FrameBalance(0)
  BY <1>1, <1>3, <1>5, <1>6, UserFacts DEF PacketBalance, FrameBalance
<1>8. PacketsAccounted' /\ FramesAccounted'
  BY <1>1, <1>3, <1>7, Accounts
<1>9. Len(queue') <= QueueSize
  BY <1>1, <1>2, <1>3
<1>10. LoopOK'
  <2>1. /\ loop = "wait" /\ loop' = "test" /\ run' = run
        /\ late' = IF run THEN late ELSE late + 1
    BY DEF Dequeue
  <2>2. late = 0
    BY <2>1 DEF UserInv, LoopOK
  <2> QED
    BY <2>1, <2>2 DEF LoopOK
<1> QED
  BY <1>1, <1>3, <1>4, <1>6, <1>8, <1>9, <1>10 DEF UserInv, CountersOK

\* Counting an injected packet.
LEMMA StoreCountUser ==
  ASSUME UserInv, SendInv, NEW th \in Thread, StoreCount(th)
  PROVE  UserInv'
<1> DEFINE n == thread[th].count + 1
<1>0. stats \in StatsType /\ gone \in GoneType
  BY UserFacts
<1>1. /\ thread[th].pc = "store"
      /\ stats' = [stats EXCEPT !.injected = n]
      /\ UNCHANGED <<enable_fec, queue, gone, work, run, loop, late>>
  BY DEF StoreCount
<1>2. ThreadOK(thread[th])
  BY DEF SendInv, ThreadsOK, Thread
<1>3. n \in Nat
  <2>1. thread[th].count \in Nat
    BY <1>1, <1>2, ThreadCases
  <2> QED
    BY <2>1
<1> HIDE DEF n
<1>4. /\ stats' \in StatsType /\ stats'.input = stats.input
      /\ stats'.dropped = stats.dropped /\ stats'.frames = stats.frames
  BY <1>0, <1>1, <1>3 DEF StatsType
<1>5. PacketsAccounted' /\ FramesAccounted'
  BY <1>1, <1>4 DEF UserInv, PacketsAccounted, FramesAccounted
<1> QED
  BY <1>1, <1>4, <1>5 DEF UserInv, CountersOK, LoopOK

\* Preparing a packet takes it off the element.
LEMMA PreparePacketUser ==
  ASSUME UserInv, PreparePacket
  PROVE  UserInv'
<1>1. /\ work.left > 0 /\ work' = [work EXCEPT !.left = @ - 1]
      /\ UNCHANGED <<enable_fec, queue, stats, gone, run, loop, late>>
  BY DEF PreparePacket, userVars
<1>2. work' \in [packet_type : PacketType, left : Nat]
  BY <1>1 DEF UserInv
<1>3. PacketsAccounted' /\ FramesAccounted'
  BY <1>1 DEF UserInv, PacketsAccounted, FramesAccounted
<1> QED
  BY <1>1, <1>2, <1>3 DEF UserInv, CountersOK, LoopOK

\* The other steps leave the user's half alone, but for the flag and the loop.
LEMMA OtherUser ==
  ASSUME UserInv, run' \in BOOLEAN, LoopOK',
         UNCHANGED <<enable_fec, queue, stats, gone, work>>
  PROVE  UserInv'
BY DEF UserInv, CountersOK, PacketsAccounted, FramesAccounted

\* What does not touch the flag and the loop.
LEMMA LoopKept ==
  ASSUME UserInv, UNCHANGED <<run, loop, late>>
  PROVE  run' \in BOOLEAN /\ LoopOK'
BY DEF UserInv, LoopOK

\* Every step keeps the user's half.
LEMMA NextUser ==
  ASSUME IInv, [Next]_vars
  PROVE  UserInv'
<1>0. UserInv /\ SendInv /\ run \in BOOLEAN /\ LoopOK
  BY DEF IInv, UserInv
<1>1. CASE \E i \in Item : \/ \E t \in PacketType : TryEnqueue(i, t) \/ EnqueuePacketDropping(i, t)
                          \/ RejectBlock(i) \/ EnqueueBlockDropping(i)
  BY <1>0, <1>1, TryEnqueueStep, EnqueuePacketDroppingStep, RejectBlockStep, EnqueueBlockDroppingStep
<1>2. CASE \E t \in PacketType : \E n \in HistoryLimits : SetMaxHistorySize(t, n)
  BY <1>0, <1>2, LoopKept, OtherUser DEF SetMaxHistorySize, userVars
<1>3. CASE Destroy
  <2>1. run' \in BOOLEAN /\ LoopOK'
    BY <1>0, <1>3 DEF Destroy, LoopOK
  <2> QED
    BY <1>0, <1>3, <2>1, OtherUser DEF Destroy, userVars
<1>4. CASE Process
  <2>1. CASE Dequeue
    BY <1>0, <2>1, DequeueStep
  <2>2. CASE TestRun
    <3>1. run' \in BOOLEAN /\ LoopOK'
      BY <1>0, <2>2 DEF TestRun, GoesOn, LoopOK
    <3> QED
      BY <1>0, <2>2, <3>1, OtherUser DEF TestRun, userVars
  <2>3. CASE DequeueNothing
    <3>1. run' \in BOOLEAN /\ LoopOK'
      BY <1>0, <2>3 DEF DequeueNothing, LoopOK
    <3> QED
      BY <1>0, <2>3, <3>1, OtherUser DEF DequeueNothing, userVars
  <2>4. CASE PreparePacket
    BY <1>0, <2>4, PreparePacketUser
  <2>5. CASE SendPacket("process")
    <3>1. "process" \in Thread
      BY DEF Thread
    <3> QED
      BY <1>0, <2>5, <3>1, StoreCountUser, LoopKept, OtherUser
         DEF SendPacket, Inject, LoadCount, userVars
  <2> QED
    BY <1>4, <2>1, <2>2, <2>3, <2>4, <2>5 DEF Process
<1>5. CASE SendPacket("rx")
  <2>1. "rx" \in Thread
    BY DEF Thread
  <2> QED
    BY <1>0, <1>5, <2>1, StoreCountUser, LoopKept, OtherUser
       DEF SendPacket, Inject, LoadCount, userVars
<1>6. CASE \E t \in PacketType : \E n \in RequestNumbers : RetransmissionRequest(t, n)
  BY <1>0, <1>6, LoopKept, OtherUser DEF RetransmissionRequest, userVars
<1>7. CASE UNCHANGED vars
  BY <1>0, <1>7, LoopKept, OtherUser DEF vars
<1> QED
  BY <1>1, <1>2, <1>3, <1>4, <1>5, <1>6, <1>7 DEF Next

-----------------------------------------------------------------------------
(* The history                                                               *)

\* The larger of a natural and zero.
LEMMA MaxZero ==
  ASSUME NEW a \in Int
  PROVE  Max({0, a}) = IF a > 0 THEN a ELSE 0
<1>1. \A x \in {0, a} : x = 0 \/ x = a
  OBVIOUS
<1> DEFINE m == IF a > 0 THEN a ELSE 0
<1>2. m \in {0, a} /\ \A y \in {0, a} : m >= y
  OBVIOUS
<1>3. \A x \in {0, a} : (\A y \in {0, a} : x >= y) => x = m
  OBVIOUS
<1> HIDE DEF m
<1>4. (CHOOSE x \in {0, a} : \A y \in {0, a} : x >= y) = m
  BY <1>2, <1>3
<1> QED
  BY <1>4 DEF Max, m

\* What a sequence contains.
LEMMA InToSet ==
  ASSUME NEW s \in Seq(Nat), NEW n
  PROVE  n \in ToSet(s) <=> \E i \in 1..Len(s) : s[i] = n
<1>1. DOMAIN s = 1..Len(s)
  OBVIOUS
<1> QED
  BY <1>1, Zenon DEF ToSet

\* A sequence cut in two.
LEMMA Cut ==
  ASSUME NEW h \in Seq(Nat), NEW d \in Nat, d <= Len(h)
  PROVE  LET r == SubSeq(h, d + 1, Len(h))
             g == SubSeq(h, 1, d)
         IN /\ r \in Seq(Nat) /\ Len(r) = Len(h) - d
            /\ \A i \in 1..(Len(h) - d) : r[i] = h[d + i]
            /\ g \in Seq(Nat) /\ Len(g) = d /\ \A i \in 1..d : g[i] = h[i]
<1>1. SubSeq(h, d + 1, Len(h)) \in Seq(Nat) /\ Len(SubSeq(h, d + 1, Len(h))) = Len(h) - d
  OBVIOUS
<1>2. \A i \in 1..(Len(h) - d) : SubSeq(h, d + 1, Len(h))[i] = h[d + i]
  OBVIOUS
<1>3. SubSeq(h, 1, d) \in Seq(Nat) /\ Len(SubSeq(h, 1, d)) = d /\ \A i \in 1..d : SubSeq(h, 1, d)[i] = h[i]
  OBVIOUS
<1> QED
  BY <1>1, <1>2, <1>3

\* Trimming a history to a size of at least one leaves its newest part.
LEMMA Trim ==
  ASSUME NEW h \in Seq(Nat), NEW n \in Nat, NEW size \in Nat \ {0}, NEW l, TailOf(h, n, l)
  PROVE  LET d == Max({0, Len(h) - size})
             r == SubSeq(h, d + 1, Len(h))
         IN /\ d \in Nat
            /\ r \in Seq(Nat) /\ TailOf(r, n, size)
            /\ h # <<>> => r # <<>>
            /\ \A x \in ToSet(r) : x \in ToSet(h) /\ x \notin ToSet(SubSeq(h, 1, d))
<1> DEFINE d == Max({0, Len(h) - size})
           r == SubSeq(h, d + 1, Len(h))
           g == SubSeq(h, 1, d)
           k == Len(h)
<1>1. k \in Nat /\ d = (IF k - size > 0 THEN k - size ELSE 0)
  BY MaxZero
<1>2. \A i \in 1..k : h[i] = n - k + i - 1
  BY DEF TailOf
<1> HIDE DEF d
<1>3. d \in Nat /\ d <= k /\ k - d <= size /\ (k > 0 => d < k)
  BY <1>1
<1>4. /\ r \in Seq(Nat) /\ Len(r) = k - d /\ \A i \in 1..(k - d) : r[i] = h[d + i]
      /\ g \in Seq(Nat) /\ Len(g) = d /\ \A i \in 1..d : g[i] = h[i]
  BY <1>3, Cut
<1>5. (h # <<>> => k > 0) /\ (r = <<>> => Len(r) = 0)
  <2>1. h # <<>> => k > 0
    OBVIOUS
  <2> HIDE DEF r, k
  <2>2. r = <<>> => Len(r) = 0
    OBVIOUS
  <2> QED
    BY <2>1, <2>2
<1> HIDE DEF r, g, k
<1>6. ASSUME NEW i \in 1..(k - d)
      PROVE  d + i \in 1..k /\ r[i] = n - k + (d + i) - 1
  <2>1. d + i \in 1..k
    BY <1>1, <1>3
  <2>2. r[i] = h[d + i] /\ h[d + i] = n - k + (d + i) - 1
    BY <1>2, <1>4, <2>1
  <2> QED
    BY <2>1, <2>2
<1>7. TailOf(r, n, size)
  <2>1. \A i \in 1..(k - d) : r[i] = n - (k - d) + i - 1
    BY <1>1, <1>3, <1>6
  <2> QED
    BY <1>3, <1>4, <2>1 DEF TailOf
<1>8. ASSUME NEW x \in ToSet(r)
      PROVE  x \in ToSet(h) /\ x \notin ToSet(g)
  <2>1. PICK i \in 1..(k - d) : r[i] = x
    BY <1>4, <1>8, InToSet
  <2>2. d + i \in 1..k /\ h[d + i] = x
    BY <1>4, <1>6, <2>1
  <2>3. \A j \in 1..d : g[j] # x
    <3> SUFFICES ASSUME NEW j \in 1..d PROVE h[j] # h[d + i]
      BY <1>4, <2>2
    <3>1. j \in 1..k /\ j # d + i
      BY <1>1, <1>3, <2>1
    <3>2. h[j] = n - k + j - 1 /\ h[d + i] = n - k + (d + i) - 1
      BY <1>2, <2>2, <3>1
    <3> QED
      BY <1>1, <1>3, <2>1, <3>1, <3>2
  <2>4. x \in ToSet(h)
    BY <2>2, InToSet DEF k
  <2> QED
    BY <1>4, <2>3, <2>4, InToSet
<1>9. h # <<>> => r # <<>>
  BY <1>1, <1>3, <1>4, <1>5
<1> QED
  BY <1>3, <1>4, <1>7, <1>8, <1>9 DEF d, r, g, k

\* What is in a history was numbered.
LEMMA TailBelow ==
  ASSUME NEW h \in Seq(Nat), NEW n \in Nat, NEW l, TailOf(h, n, l), NEW x \in ToSet(h)
  PROVE  x \in Nat /\ x < n
<1>1. PICK i \in 1..Len(h) : h[i] = x
  BY InToSet
<1>2. h[i] = n - Len(h) + i - 1 /\ Len(h) \in Nat /\ h[i] \in Nat
  BY DEF TailOf
<1> QED
  BY <1>1, <1>2

\* The history with one more number, before it is trimmed.
LEMMA TailAppend ==
  ASSUME NEW h \in Seq(Nat), NEW n \in Nat, NEW l, TailOf(h, n, l)
  PROVE  /\ Append(h, n) \in Seq(Nat) /\ TailOf(Append(h, n), n + 1, Len(h) + 1)
         /\ Append(h, n) # <<>>
         /\ \A x \in ToSet(Append(h, n)) : x \in ToSet(h) \/ x = n
<1> DEFINE a == Append(h, n)
<1>1. /\ a \in Seq(Nat) /\ Len(a) = Len(h) + 1 /\ Len(h) \in Nat /\ a[Len(h) + 1] = n
      /\ \A i \in 1..Len(h) : a[i] = h[i]
  OBVIOUS
<1>2. \A i \in 1..Len(h) : h[i] = n - Len(h) + i - 1
  BY DEF TailOf
<1> HIDE DEF a
<1>3. \A i \in 1..(Len(h) + 1) : i \in 1..Len(h) \/ i = Len(h) + 1
  BY <1>1
<1>4. \A i \in 1..(Len(h) + 1) : a[i] = (n + 1) - (Len(h) + 1) + i - 1
  BY <1>1, <1>2, <1>3
<1>5. TailOf(a, n + 1, Len(h) + 1)
  BY <1>1, <1>4 DEF TailOf
<1>6. ASSUME NEW x \in ToSet(a)
      PROVE  x \in ToSet(h) \/ x = n
  <2>1. PICK i \in 1..(Len(h) + 1) : a[i] = x
    BY <1>1, <1>6, InToSet
  <2> QED
    BY <1>1, <1>3, <2>1, InToSet
<1>7. a # <<>>
  <2>1. a = <<>> => Len(a) = 0
    OBVIOUS
  <2> QED
    BY <1>1, <2>1
<1> QED
  BY <1>1, <1>5, <1>6, <1>7 DEF a

-----------------------------------------------------------------------------
(* The senders' half                                                         *)

\* Where the two threads are after one of them moved.
LEMMA ThreadUpdate ==
  ASSUME ThreadsOK, NEW th \in Thread, NEW x, thread' = [thread EXCEPT ![th] = x]
  PROVE  /\ thread' = [u \in Thread |-> thread'[u]]
         /\ thread'[th] = x /\ \A u \in Thread : u # th => thread'[u] = thread[u]
BY DEF ThreadsOK

\* Numbers do not fall, and of the past only some is forgotten: requests are no
\* earlier forgotten than their packets.
OnlyForgets ==
  \A t \in PacketType :
    /\ seqNr[t] <= seqNr'[t]
    /\ \A n \in ToSet(history'[t]) : n \in ToSet(history[t]) \/ n >= seqNr[t]
    /\ \A n \in seen[t] : n >= seqNr'[t] \/ n \in ToSet(history'[t]) => n \in seen'[t]
    /\ seen'[t] \subseteq seen[t]

\* What is known of a packet that is or will be on the air.
LEMMA PacketTyped ==
  ASSUME NEW p \in Packet
  PROVE  p.packet_type \in PacketType /\ p.seq \in Nat /\ p.again \in BOOLEAN
BY DEF Packet

\* Such a step leaves true what was known of a packet.
LEMMA PacketKept ==
  ASSUME NumbersOK, NumbersOK', OnlyForgets, NEW p \in Packet,
         PacketOK(p, seqNr, history, seen, early)
  PROVE  PacketOK(p, seqNr', history', seen', early)
<1> DEFINE t == p.packet_type
           n == p.seq
<1>1. t \in PacketType /\ n \in Nat
  BY PacketTyped
<1>2. seqNr[t] \in Nat /\ seqNr'[t] \in Nat
  BY <1>1 DEF NumbersOK
<1>3. /\ n < seqNr[t] /\ (p.again /\ n \in ToSet(history[t]) => n \in seen[t])
      /\ p.again => n \notin early[t]
  BY DEF PacketOK
<1>4. /\ seqNr[t] <= seqNr'[t]
      /\ n \in ToSet(history'[t]) => n \in ToSet(history[t]) \/ n >= seqNr[t]
      /\ n \in seen[t] /\ n \in ToSet(history'[t]) => n \in seen'[t]
  BY <1>1 DEF OnlyForgets
<1> HIDE DEF t, n
<1>5. n < seqNr'[t] /\ ~(n >= seqNr[t])
  BY <1>1, <1>2, <1>3, <1>4
<1> QED
  BY <1>3, <1>4, <1>5 DEF PacketOK, t, n

\* And what was answered stays answered.
LEMMA Forgetting ==
  ASSUME SendInv, NumbersOK', OnlyForgets, UNCHANGED <<air, early>>, thread'["rx"] = thread["rx"]
  PROVE  AnswersOK'
<1>1. NumbersOK /\ PacketsOK /\ ThreadOK(thread["rx"])
  BY DEF SendInv, AnswersOK, ThreadsOK
<1>2. \A i \in 1..Len(air) : air[i] \in Packet
  BY <1>1 DEF NumbersOK
<1>3. thread["rx"].pc = "inject" => thread["rx"].packet \in Packet
  BY <1>1, ThreadCases
<1>4. PacketsOK'
  BY <1>1, <1>2, <1>3, PacketKept DEF PacketsOK
<1>5. SeenOK(seqNr', history', seen', early, air, thread["rx"])
  <2> SUFFICES ASSUME NEW t \in PacketType, NEW n \in seen'[t], n \notin early[t]
               PROVE  /\ n < seqNr'[t]
                      /\ n \in ToSet(history'[t]) =>
                           \/ \E i \in 1..Len(air) :
                                air[i] = [packet_type |-> t, seq |-> n, again |-> TRUE]
                           \/ thread["rx"] = [pc |-> "inject",
                                packet |-> [packet_type |-> t, seq |-> n, again |-> TRUE]]
    BY DEF SeenOK
  <2>1. /\ n \in seen[t] /\ seqNr[t] <= seqNr'[t]
        /\ n \in ToSet(history'[t]) => n \in ToSet(history[t]) \/ n >= seqNr[t]
    BY DEF OnlyForgets
  <2>2. /\ n < seqNr[t]
        /\ n \in ToSet(history[t]) =>
             \/ \E i \in 1..Len(air) : air[i] = [packet_type |-> t, seq |-> n, again |-> TRUE]
             \/ thread["rx"] = [pc |-> "inject",
                  packet |-> [packet_type |-> t, seq |-> n, again |-> TRUE]]
    BY <2>1 DEF SendInv, AnswersOK, SeenOK
  <2>3. seqNr[t] \in Nat /\ seqNr'[t] \in Nat /\ n \in Nat
    BY <1>1, <2>1 DEF NumbersOK
  <2>4. n < seqNr'[t] /\ ~(n >= seqNr[t])
    BY <2>1, <2>2, <2>3
  <2> QED
    BY <2>1, <2>2, <2>4
<1>6. EarlyOK(seqNr', history', seen', early)
  <2> SUFFICES ASSUME NEW t \in PacketType, NEW n \in early[t],
                      n >= seqNr'[t] \/ n \in ToSet(history'[t])
               PROVE  n \in seen'[t]
    BY DEF EarlyOK
  <2>1. /\ seqNr[t] <= seqNr'[t]
        /\ n \in ToSet(history'[t]) => n \in ToSet(history[t]) \/ n >= seqNr[t]
        /\ n \in seen[t] => n \in seen'[t]
    BY DEF OnlyForgets
  <2>2. seqNr[t] \in Nat /\ seqNr'[t] \in Nat /\ n \in Nat
    BY <1>1 DEF NumbersOK
  <2>3. n >= seqNr[t] \/ n \in ToSet(history[t])
    BY <2>1, <2>2
  <2>4. n \in seen[t]
    BY <2>3 DEF SendInv, AnswersOK, EarlyOK
  <2> QED
    BY <2>1, <2>4
<1>7. OnceOK(air, thread["rx"])
  BY DEF SendInv, AnswersOK
<1> QED
  BY <1>4, <1>5, <1>6, <1>7 DEF AnswersOK

\* The threads while nothing of send_packet happens.
LEMMA ThreadsKept ==
  ASSUME ThreadsOK, UNCHANGED <<thread, locked, seqNr>>
  PROVE  ThreadsOK'
BY DEF ThreadsOK

\* Steps of the user's half.
LEMMA SendUnchanged ==
  ASSUME SendInv, UNCHANGED <<seqNr, history, limit, seen, early, thread, locked, air>>
  PROVE  SendInv'
BY DEF SendInv, ThreadsOK, NumbersOK, HistoryOK, AnswersOK, PacketsOK

\* Shrinking or widening a history.
LEMMA SetMaxHistorySizeStep ==
  ASSUME SendInv, NEW t \in PacketType, NEW k \in HistoryLimits, SetMaxHistorySize(t, k)
  PROVE  SendInv'
<1> DEFINE size == IF k < 1 THEN 1 ELSE k
           h == history[t]
           d == Max({0, Len(h) - size})
           r == SubSeq(h, d + 1, Len(h))
           g == SubSeq(h, 1, d)
<1>1. size \in Nat \ {0}
  BY WBStreamTxAssumption DEF WBStreamTxAssumption
<1>2. /\ limit' = [limit EXCEPT ![t] = size]
      /\ history' = [history EXCEPT ![t] = r]
      /\ seen' = [seen EXCEPT ![t] = @ \ ToSet(g)]
      /\ UNCHANGED <<seqNr, early, thread, locked, air>>
  BY DEF SetMaxHistorySize
<1>3. NumbersOK /\ HistoryOK /\ ThreadsOK
  BY DEF SendInv
<1>4. h \in Seq(Nat) /\ seqNr[t] \in Nat /\ TailOf(h, seqNr[t], limit[t])
  BY <1>3 DEF NumbersOK, HistoryOK
<1> HIDE DEF size
<1>5. /\ r \in Seq(Nat) /\ TailOf(r, seqNr[t], size) /\ (h # <<>> => r # <<>>)
      /\ \A x \in ToSet(r) : x \in ToSet(h) /\ x \notin ToSet(g)
  BY <1>1, <1>4, Trim
<1>6. h = <<>> => r = <<>>
  <2>1. SUFFICES ASSUME h = <<>> PROVE r = <<>>
    OBVIOUS
  <2>2. d = 0 /\ Len(h) = 0
    BY <1>1, <2>1, MaxZero
  <2> QED
    BY <2>1, <2>2
<1>6a. \A x \in ToSet(g) : x \in Nat /\ x < seqNr[t]
  <2>1. d \in Nat /\ d <= Len(h)
    BY <1>1, <1>4, MaxZero
  <2>2. /\ g \in Seq(Nat) /\ Len(g) = d /\ \A i \in 1..d : g[i] = h[i] /\ i \in 1..Len(h)
    <3> HIDE DEF d, h
    <3> QED
      BY <1>4, <2>1, Cut
  <2> HIDE DEF g, h, d
  <2>3. ASSUME NEW x \in ToSet(g)
        PROVE  x \in ToSet(h)
    <3>1. PICK i \in 1..Len(g) : g[i] = x
      BY <2>2, InToSet
    <3>2. h[i] = x /\ i \in 1..Len(h)
      BY <2>2, <3>1
    <3> QED
      BY <1>4, <3>2, InToSet
  <2> QED
    BY <1>4, <2>3, TailBelow
<1> HIDE DEF h, r, g, d
<1>7. NumbersOK'
  BY <1>1, <1>2, <1>3, <1>5 DEF NumbersOK
<1>8. HistoryOK'
  <2> SUFFICES ASSUME NEW u \in PacketType
               PROVE  /\ TailOf(history'[u], seqNr[u], limit'[u])
                      /\ IF RetransmissionEnabled(u) THEN seqNr[u] > 0 => history'[u] # <<>>
                         ELSE history'[u] = <<>>
    BY <1>2 DEF HistoryOK, RetransmissionEnabled
  <2>1. /\ TailOf(history[u], seqNr[u], limit[u])
        /\ IF RetransmissionEnabled(u) THEN seqNr[u] > 0 => history[u] # <<>>
           ELSE history[u] = <<>>
    BY <1>3 DEF HistoryOK
  <2>2. CASE u = t
    <3>1. history'[u] = r /\ limit'[u] = size /\ h = history[u]
      BY <1>2, <1>3, <2>2 DEF NumbersOK, h
    <3> QED
      BY <1>5, <1>6, <2>1, <2>2, <3>1
  <2>3. CASE u # t
    <3>1. history'[u] = history[u] /\ limit'[u] = limit[u]
      BY <1>2, <1>3, <2>3 DEF NumbersOK
    <3> QED
      BY <2>1, <3>1
  <2> QED
    BY <2>2, <2>3
<1>9. OnlyForgets
  <2> SUFFICES ASSUME NEW u \in PacketType
               PROVE  /\ seqNr[u] <= seqNr'[u]
                      /\ \A n \in ToSet(history'[u]) : n \in ToSet(history[u])
                      /\ \A n \in seen[u] : n >= seqNr'[u] \/ n \in ToSet(history'[u]) => n \in seen'[u]
                      /\ seen'[u] \subseteq seen[u]
    BY DEF OnlyForgets
  <2>1. seqNr[u] <= seqNr'[u]
    BY <1>2, <1>3 DEF NumbersOK
  <2>2. CASE u = t
    <3>1. history'[u] = r /\ seen'[u] = seen[u] \ ToSet(g) /\ h = history[u] /\ seqNr'[u] = seqNr[t]
      BY <1>2, <1>3, <2>2 DEF NumbersOK, h
    <3>2. \A n \in ToSet(g) : ~(n >= seqNr[t])
      BY <1>4, <1>6a
    <3> QED
      BY <1>5, <2>1, <3>1, <3>2
  <2>3. CASE u # t
    <3>1. history'[u] = history[u] /\ seen'[u] = seen[u]
      BY <1>2, <1>3, <2>3 DEF NumbersOK
    <3> QED
      BY <2>1, <3>1
  <2> QED
    BY <2>2, <2>3
<1>10. AnswersOK'
  BY <1>2, <1>7, <1>9, Forgetting
<1>11. ThreadsOK'
  BY <1>2, <1>3, ThreadsKept
<1> QED
  BY <1>7, <1>8, <1>10, <1>11 DEF SendInv

\* Numbering a packet and remembering it.
LEMMA PreparePacketStep ==
  ASSUME UserInv, SendInv, PreparePacket
  PROVE  SendInv'
<1> DEFINE t == work.packet_type
           h == history[t]
           a == Append(h, seqNr[t])
           d == Max({0, Len(a) - limit[t]})
           r == SubSeq(a, d + 1, Len(a))
           p == [packet_type |-> t, seq |-> seqNr[t], again |-> FALSE]
<1>1. t \in PacketType
  BY DEF UserInv
<1>2. NumbersOK /\ HistoryOK /\ ThreadsOK
  BY DEF SendInv
<1>3. /\ h \in Seq(Nat) /\ seqNr[t] \in Nat /\ TailOf(h, seqNr[t], limit[t])
      /\ limit[t] \in Nat \ {0} /\ seqNr[t] + 1 \in Nat
  BY <1>1, <1>2 DEF NumbersOK, HistoryOK
<1>4. /\ seqNr' = [seqNr EXCEPT ![t] = @ + 1]
      /\ thread' = [thread EXCEPT !["process"] = [pc |-> "inject", packet |-> p]]
      /\ UNCHANGED <<limit, early, locked, air>>
  BY DEF PreparePacket, Sending
<1>5. /\ a \in Seq(Nat) /\ a # <<>> /\ TailOf(a, seqNr[t] + 1, Len(h) + 1)
      /\ \A x \in ToSet(a) : x \in ToSet(h) \/ x = seqNr[t]
  BY <1>3, TailAppend
<1>6. /\ r \in Seq(Nat) /\ r # <<>> /\ TailOf(r, seqNr[t] + 1, limit[t])
      /\ \A x \in ToSet(r) : x \in ToSet(a)
  <2> HIDE DEF a
  <2> QED
    BY <1>3, <1>5, Trim
<1>7. Remembered(t) = r
  <2>1. d \in Nat /\ 1 + d = d + 1
    <3> HIDE DEF a
    <3>1. d \in Nat
      BY <1>3, <1>5, Trim
    <3> HIDE DEF d
    <3> QED
      BY <3>1
  <2> QED
    BY <2>1, Zenon DEF Remembered
<1>8. IF RetransmissionEnabled(t)
      THEN /\ history' = [history EXCEPT ![t] = r]
           /\ seen' = [seen EXCEPT ![t] = seen[t] \ (ToSet(a) \ ToSet(r))]
      ELSE UNCHANGED <<history, seen>>
  <2>1. SeenAfter(t) = seen[t] \ (ToSet(a) \ ToSet(r))
    BY <1>7 DEF SeenAfter
  <2>2. IF RetransmissionEnabled(t)
        THEN history' = [history EXCEPT ![t] = Remembered(t)] /\ seen' = [seen EXCEPT ![t] = SeenAfter(t)]
        ELSE UNCHANGED <<history, seen>>
    BY DEF PreparePacket
  <2> QED
    BY <1>7, <2>1, <2>2
<1> HIDE DEF t, h, a, d, r, p
<1>9. /\ seqNr' \in [PacketType -> Nat] /\ seqNr'[t] = seqNr[t] + 1
      /\ \A u \in PacketType : u # t => seqNr'[u] = seqNr[u]
  BY <1>1, <1>2, <1>3, <1>4 DEF NumbersOK
<1>10. /\ history' \in [PacketType -> Seq(Nat)] /\ seen' \in [PacketType -> SUBSET Nat]
       /\ \A u \in PacketType : u # t => history'[u] = history[u] /\ seen'[u] = seen[u]
       /\ RetransmissionEnabled(t) => history'[t] = r /\ seen'[t] = seen[t] \ (ToSet(a) \ ToSet(r))
       /\ ~RetransmissionEnabled(t) => history'[t] = history[t] /\ seen'[t] = seen[t]
  <2>1. CASE RetransmissionEnabled(t)
    <3>1. /\ history' = [history EXCEPT ![t] = r]
          /\ seen' = [seen EXCEPT ![t] = seen[t] \ (ToSet(a) \ ToSet(r))]
      BY <1>8, <2>1
    <3>2. seen[t] \ (ToSet(a) \ ToSet(r)) \in SUBSET Nat
      BY <1>1, <1>2 DEF NumbersOK
    <3> QED
      BY <1>1, <1>2, <1>6, <2>1, <3>1, <3>2 DEF NumbersOK
  <2>2. CASE ~RetransmissionEnabled(t)
    BY <1>2, <1>8, <2>2 DEF NumbersOK
  <2> QED
    BY <2>1, <2>2
<1>11. NumbersOK'
  BY <1>2, <1>4, <1>9, <1>10 DEF NumbersOK
<1>12. HistoryOK'
  <2> SUFFICES ASSUME NEW u \in PacketType
               PROVE  /\ TailOf(history'[u], seqNr'[u], limit[u])
                      /\ IF RetransmissionEnabled(u) THEN seqNr'[u] > 0 => history'[u] # <<>>
                         ELSE history'[u] = <<>>
    BY <1>4 DEF HistoryOK, RetransmissionEnabled
  <2>1. /\ TailOf(history[u], seqNr[u], limit[u])
        /\ IF RetransmissionEnabled(u) THEN seqNr[u] > 0 => history[u] # <<>>
           ELSE history[u] = <<>>
    BY <1>2 DEF HistoryOK
  <2>2. CASE u # t
    BY <1>9, <1>10, <2>1, <2>2
  <2>3. CASE u = t /\ RetransmissionEnabled(t)
    BY <1>6, <1>9, <1>10, <2>3
  <2>4. CASE u = t /\ ~RetransmissionEnabled(t)
    <3>1. history'[u] = <<>>
      BY <1>10, <2>1, <2>4
    <3>2. limit[u] \in Nat
      BY <1>3, <2>4
    <3>3. TailOf(<<>>, seqNr'[u], limit[u])
      BY <3>2 DEF TailOf
    <3> QED
      BY <2>4, <3>1, <3>3
  <2> QED
    BY <2>2, <2>3, <2>4
<1>13. OnlyForgets
  <2> SUFFICES ASSUME NEW u \in PacketType
               PROVE  /\ seqNr[u] <= seqNr'[u]
                      /\ \A n \in ToSet(history'[u]) : n \in ToSet(history[u]) \/ n = seqNr[u]
                      /\ \A n \in seen[u] : n >= seqNr'[u] \/ n \in ToSet(history'[u]) => n \in seen'[u]
                      /\ seen'[u] \subseteq seen[u]
    <3>1. \A u \in PacketType : seqNr[u] >= seqNr[u]
      BY <1>2 DEF NumbersOK
    <3> QED
      BY <3>1 DEF OnlyForgets
  <2>1. seqNr[u] <= seqNr'[u]
    <3>1. seqNr[u] \in Nat
      BY <1>2 DEF NumbersOK
    <3>2. seqNr'[u] = seqNr[u] + 1 \/ seqNr'[u] = seqNr[u]
      BY <1>9
    <3> QED
      BY <3>1, <3>2
  <2>2. CASE u = t /\ RetransmissionEnabled(t)
    <3>1. history'[u] = r /\ seen'[u] = seen[u] \ (ToSet(a) \ ToSet(r)) /\ h = history[u]
      BY <1>10, <2>2 DEF h
    <3>2. \A n \in ToSet(a) : n \in Nat /\ n < seqNr'[u]
      BY <1>3, <1>5, <1>9, <2>2, TailBelow
    <3>3. \A n \in ToSet(a) : ~(n >= seqNr'[u])
      <4>1. seqNr'[u] \in Nat
        BY <1>9
      <4> QED
        BY <3>2, <4>1
    <3> QED
      BY <1>5, <1>6, <2>1, <2>2, <3>1, <3>3
  <2>3. CASE ~(u = t /\ RetransmissionEnabled(t))
    <3>1. history'[u] = history[u] /\ seen'[u] = seen[u]
      BY <1>10, <2>3
    <3> QED
      BY <2>1, <3>1
  <2> QED
    BY <2>2, <2>3
<1>14. "process" \in Thread /\ "rx" \in Thread /\ "process" # "rx"
  BY DEF Thread
<1>15. /\ thread' = [u \in Thread |-> thread'[u]]
       /\ thread'["process"] = [pc |-> "inject", packet |-> p] /\ thread'["rx"] = thread["rx"]
  BY <1>2, <1>4, <1>14, ThreadUpdate
<1>16. AnswersOK'
  BY <1>4, <1>11, <1>13, <1>15, Forgetting
<1>17. p \in Packet /\ ~p.again /\ p.packet_type = t /\ p.seq = seqNr[t] /\ p.seq < seqNr'[t]
  BY <1>1, <1>3, <1>9 DEF p, Packet
<1>18. ThreadsOK'
  <2>1. ThreadOK(thread'["process"]) /\ ThreadOK(thread'["rx"])
    BY <1>2, <1>15, <1>17 DEF ThreadOK, ThreadsOK
  <2>2. thread'["process"].packet = p
    BY <1>15
  <2> QED
    BY <1>2, <1>4, <1>15, <1>17, <2>1, <2>2 DEF ThreadsOK
<1> QED
  BY <1>11, <1>12, <1>16, <1>18 DEF SendInv

\* A thread in send_packet that does not inject changes nothing that is known.
LEMMA CountingStep ==
  ASSUME SendInv, NEW th \in Thread, NEW x, ThreadOK(x), x.pc # "inject",
         thread[th].pc # "inject",
         thread' = [thread EXCEPT ![th] = x],
         locked' = (IF th = "rx" THEN x # AtRest ELSE locked),
         UNCHANGED <<seqNr, history, limit, seen, early, air>>
  PROVE  SendInv'
<1>1. ThreadsOK /\ NumbersOK /\ HistoryOK
  BY DEF SendInv
<1>2. /\ thread' = [u \in Thread |-> thread'[u]]
      /\ thread'[th] = x /\ \A u \in Thread : u # th => thread'[u] = thread[u]
  BY <1>1, ThreadUpdate
<1>3. Thread = {"process", "rx"}
  BY DEF Thread
<1>4. NumbersOK' /\ HistoryOK'
  BY <1>1 DEF NumbersOK, HistoryOK
<1>5. CASE th = "rx"
  <2>1. thread'["rx"] = x /\ thread'["process"] = thread["process"]
    BY <1>2, <1>3, <1>5
  <2>2. ThreadsOK'
    BY <1>1, <1>2, <1>5, <2>1 DEF ThreadsOK
  <2>3. SeenOK(seqNr, history, seen, early, air, x)
    <3> SUFFICES ASSUME NEW t \in PacketType, NEW n \in seen[t], n \notin early[t]
                 PROVE  /\ n < seqNr[t]
                        /\ n \in ToSet(history[t]) =>
                             \E i \in 1..Len(air) :
                               air[i] = [packet_type |-> t, seq |-> n, again |-> TRUE]
      BY DEF SeenOK
    <3>1. /\ n < seqNr[t]
          /\ n \in ToSet(history[t]) =>
               \/ \E i \in 1..Len(air) :
                    air[i] = [packet_type |-> t, seq |-> n, again |-> TRUE]
               \/ thread["rx"] = [pc |-> "inject",
                    packet |-> [packet_type |-> t, seq |-> n, again |-> TRUE]]
      BY DEF SendInv, AnswersOK, SeenOK
    <3>2. thread["rx"] # [pc |-> "inject",
                          packet |-> [packet_type |-> t, seq |-> n, again |-> TRUE]]
      BY <1>5
    <3> QED
      BY <3>1, <3>2
  <2>4. AnswersOK'
    BY <2>1, <2>3 DEF SendInv, AnswersOK, PacketsOK, OnceOK
  <2> QED
    BY <1>4, <2>2, <2>4 DEF SendInv
<1>6. CASE th = "process"
  <2>1. thread'["process"] = x /\ thread'["rx"] = thread["rx"]
    BY <1>2, <1>3, <1>6
  <2>2. ThreadsOK'
    BY <1>1, <1>2, <1>6, <2>1 DEF ThreadsOK
  <2>3. AnswersOK'
    BY <2>1 DEF SendInv, AnswersOK, PacketsOK, OnceOK
  <2> QED
    BY <1>4, <2>2, <2>3 DEF SendInv
<1> QED
  BY <1>3, <1>5, <1>6

\* Counting, in two steps.
LEMMA LoadCountStep ==
  ASSUME UserInv, SendInv, NEW th \in Thread, LoadCount(th)
  PROVE  SendInv'
<1> DEFINE x == [pc |-> "store", count |-> stats.injected]
<1>1. /\ thread[th].pc = "load" /\ thread' = [thread EXCEPT ![th] = x]
      /\ UNCHANGED <<seqNr, history, limit, seen, early, locked, air>>
  BY DEF LoadCount
<1>2. stats.injected \in Nat
  BY UserFacts DEF StatsType
<1>3. ThreadOK(x) /\ x.pc = "store"
  BY <1>2 DEF ThreadOK
<1>4. x # AtRest
  BY <1>3 DEF AtRest
<1>5. th = "rx" => locked' = TRUE
  <2>1. ThreadOK(thread[th]) /\ (locked <=> thread["rx"] # AtRest) /\ locked \in BOOLEAN
    BY DEF SendInv, ThreadsOK, Thread
  <2>2. thread[th] # AtRest
    BY <1>1, <2>1, ThreadCases
  <2> QED
    BY <1>1, <2>1, <2>2
<1> HIDE DEF x
<1>6. locked' = (IF th = "rx" THEN x # AtRest ELSE locked)
  BY <1>1, <1>4, <1>5
<1> QED
  BY <1>1, <1>3, <1>6, CountingStep

\* A sending thread stores the count it loaded, plus one.
LEMMA StoreCountStep ==
  ASSUME SendInv, NEW th \in Thread, StoreCount(th)
  PROVE  SendInv'
<1>1. /\ thread[th].pc = "store" /\ thread' = [thread EXCEPT ![th] = AtRest]
      /\ UNCHANGED <<seqNr, history, limit, seen, early, air>>
      /\ locked' = IF th = "rx" THEN FALSE ELSE locked
  BY DEF StoreCount
<1>2. ThreadOK(AtRest) /\ AtRest.pc # "inject"
  BY DEF ThreadOK, AtRest
<1>3. locked' = (IF th = "rx" THEN AtRest # AtRest ELSE locked)
  BY <1>1
<1> QED
  BY <1>1, <1>2, <1>3, CountingStep

\* A packet goes on the air.
LEMMA InjectStep ==
  ASSUME SendInv, NEW th \in Thread, Inject(th)
  PROVE  SendInv'
<1> DEFINE p == thread[th].packet
           x == [pc |-> "load"]
           a == Append(air, p)
<1>1. /\ thread[th].pc = "inject" /\ thread' = [thread EXCEPT ![th] = x]
      /\ air' = a /\ UNCHANGED <<seqNr, history, limit, seen, early, locked>>
  BY DEF Inject
<1>2. ThreadsOK /\ NumbersOK /\ HistoryOK /\ PacketsOK
  BY DEF SendInv, AnswersOK
<1>3. Thread = {"process", "rx"}
  BY DEF Thread
<1>4. ThreadOK(thread[th])
  BY <1>2, <1>3 DEF ThreadsOK
<1>5. p \in Packet
  BY <1>1, <1>4, ThreadCases
<1> HIDE DEF p
<1>6. /\ air \in Seq(Packet) /\ Len(air) \in Nat
      /\ a \in Seq(Packet) /\ Len(a) = Len(air) + 1 /\ a[Len(a)] = p
      /\ \A i \in 1..Len(air) : i \in 1..Len(a) /\ a[i] = air[i]
      /\ \A i \in 1..Len(a) : i \in 1..Len(air) \/ i = Len(a)
  BY <1>2, <1>5 DEF NumbersOK
<1> HIDE DEF a
<1>7. /\ thread' = [u \in Thread |-> thread'[u]]
      /\ thread'[th] = x /\ \A u \in Thread : u # th => thread'[u] = thread[u]
  BY <1>1, <1>2, ThreadUpdate
<1>8. x.pc = "load" /\ ThreadOK(x) /\ x # AtRest
  BY DEF ThreadOK, AtRest
<1>9. NumbersOK' /\ HistoryOK'
  BY <1>1, <1>2, <1>6 DEF NumbersOK, HistoryOK
<1> HIDE DEF x
<1>10. PacketOK(p, seqNr, history, seen, early)
  <2>1. CASE th = "rx"
    BY <1>1, <1>2, <2>1 DEF PacketsOK, p
  <2>2. CASE th = "process"
    BY <1>1, <1>2, <2>2 DEF ThreadsOK, PacketOK, p
  <2> QED
    BY <1>3, <2>1, <2>2
<1>11. \A i \in 1..Len(a) : PacketOK(a[i], seqNr, history, seen, early)
  BY <1>2, <1>6, <1>10 DEF PacketsOK
<1>12. /\ \A i, j \in 1..Len(air) : air[i].again /\ air[i] = air[j] => i = j
       /\ thread["rx"].pc = "inject" => \A i \in 1..Len(air) : air[i] # thread["rx"].packet
  BY DEF SendInv, AnswersOK, OnceOK
<1>13. EarlyOK(seqNr, history, seen, early)
  BY DEF SendInv, AnswersOK
<1>14. CASE th = "rx"
  <2>1. thread'["rx"] = x /\ thread'["process"] = thread["process"]
    BY <1>3, <1>7, <1>14
  <2>2. thread["rx"] # AtRest
    BY <1>1, <1>4, <1>14, ThreadCases
  <2>3. ThreadsOK'
    BY <1>1, <1>2, <1>7, <1>8, <2>1, <2>2 DEF ThreadsOK
  <2>4. SeenOK(seqNr, history, seen, early, a, x)
    <3> SUFFICES ASSUME NEW t \in PacketType, NEW n \in seen[t], n \notin early[t]
                 PROVE  /\ n < seqNr[t]
                        /\ n \in ToSet(history[t]) =>
                             \E i \in 1..Len(a) :
                               a[i] = [packet_type |-> t, seq |-> n, again |-> TRUE]
      BY DEF SeenOK
    <3>1. /\ n < seqNr[t]
          /\ n \in ToSet(history[t]) =>
               \/ \E i \in 1..Len(air) :
                    air[i] = [packet_type |-> t, seq |-> n, again |-> TRUE]
               \/ thread["rx"] = [pc |-> "inject",
                    packet |-> [packet_type |-> t, seq |-> n, again |-> TRUE]]
      BY DEF SendInv, AnswersOK, SeenOK
    <3>2. ASSUME thread["rx"] = [pc |-> "inject",
                    packet |-> [packet_type |-> t, seq |-> n, again |-> TRUE]]
          PROVE  p = [packet_type |-> t, seq |-> n, again |-> TRUE]
      BY <1>14, <3>2 DEF p
    <3>3. Len(a) \in 1..Len(a)
      BY <1>6
    <3> QED
      BY <1>6, <3>1, <3>2, <3>3
  <2>5. OnceOK(a, x)
    <3>1. ASSUME NEW i \in 1..Len(a), NEW j \in 1..Len(a), a[i].again, a[i] = a[j]
          PROVE  i = j
      <4>1. \A k \in 1..Len(air) : air[k] # p
        BY <1>1, <1>12, <1>14 DEF p
      <4> QED
        BY <1>6, <1>12, <3>1, <4>1
    <3> QED
      BY <1>8, <3>1 DEF OnceOK
  <2>6. AnswersOK'
    BY <1>1, <1>8, <1>11, <1>13, <2>1, <2>4, <2>5 DEF AnswersOK, PacketsOK
  <2> QED
    BY <1>9, <2>3, <2>6 DEF SendInv
<1>15. CASE th = "process"
  <2>1. thread'["process"] = x /\ thread'["rx"] = thread["rx"]
    BY <1>3, <1>7, <1>15
  <2>2. ThreadsOK'
    BY <1>1, <1>2, <1>7, <1>8, <2>1 DEF ThreadsOK
  <2>3. ~p.again
    BY <1>1, <1>2, <1>15 DEF ThreadsOK, p
  <2>4. SeenOK(seqNr, history, seen, early, a, thread["rx"])
    <3> SUFFICES ASSUME NEW t \in PacketType, NEW n \in seen[t], n \notin early[t]
                 PROVE  /\ n < seqNr[t]
                        /\ n \in ToSet(history[t]) =>
                             \/ \E i \in 1..Len(a) :
                                  a[i] = [packet_type |-> t, seq |-> n, again |-> TRUE]
                             \/ thread["rx"] = [pc |-> "inject",
                                  packet |-> [packet_type |-> t, seq |-> n, again |-> TRUE]]
      BY DEF SeenOK
    <3>1. /\ n < seqNr[t]
          /\ n \in ToSet(history[t]) =>
               \/ \E i \in 1..Len(air) :
                    air[i] = [packet_type |-> t, seq |-> n, again |-> TRUE]
               \/ thread["rx"] = [pc |-> "inject",
                    packet |-> [packet_type |-> t, seq |-> n, again |-> TRUE]]
      BY DEF SendInv, AnswersOK, SeenOK
    <3> QED
      BY <1>6, <3>1
  <2>5. OnceOK(a, thread["rx"])
    <3>1. ASSUME NEW i \in 1..Len(a), NEW j \in 1..Len(a), a[i].again, a[i] = a[j]
          PROVE  i = j
      BY <1>6, <1>12, <2>3, <3>1
    <3>2. ASSUME thread["rx"].pc = "inject", NEW i \in 1..Len(a)
          PROVE  a[i] # thread["rx"].packet
      <4>1. thread["rx"].packet.again
        BY <1>2, <3>2 DEF ThreadsOK
      <4> QED
        BY <1>6, <1>12, <2>3, <3>2, <4>1
    <3> QED
      BY <3>1, <3>2 DEF OnceOK
  <2>6. AnswersOK'
    BY <1>1, <1>2, <1>11, <1>13, <2>1, <2>4, <2>5 DEF AnswersOK, PacketsOK
  <2> QED
    BY <1>9, <2>2, <2>6 DEF SendInv
<1> QED
  BY <1>3, <1>14, <1>15

\* More is remembered, some of it early: what was known of a packet stays true.
LEMMA Remembering ==
  ASSUME NumbersOK, NEW sn, \A t \in PacketType : seen[t] \subseteq sn[t],
         NEW ea, \A t \in PacketType : \A k \in ea[t] : k \in early[t] \/ ~(k < seqNr[t]),
         NEW q \in Packet, PacketOK(q, seqNr, history, seen, early)
  PROVE  PacketOK(q, seqNr, history, sn, ea)
BY PacketTyped DEF PacketOK

\* A request: ignored, remembered in vain, or answered.
LEMMA RetransmissionRequestStep ==
  ASSUME SendInv, NEW t \in PacketType, NEW n \in Nat, RetransmissionRequest(t, n)
  PROVE  SendInv'
<1> DEFINE p == [packet_type |-> t, seq |-> n, again |-> TRUE]
           x == [pc |-> "inject", packet |-> p]
<1>0. ThreadsOK /\ NumbersOK /\ HistoryOK /\ PacketsOK
  BY DEF SendInv, AnswersOK
<1>1. /\ thread["rx"] = AtRest /\ UNCHANGED <<seqNr, history, limit, air>>
      /\ IF IsNewRequest(t, n)
         THEN /\ seen' = [seen EXCEPT ![t] = @ \cup {n}]
              /\ early' = [early EXCEPT ![t] = IF n < seqNr[t] THEN @ ELSE @ \cup {n}]
         ELSE UNCHANGED <<seen, early>>
      /\ IF IsNewRequest(t, n) /\ InHistory(t, n)
         THEN thread' = [thread EXCEPT !["rx"] = x] /\ locked' = TRUE
         ELSE UNCHANGED <<thread, locked>>
  BY DEF RetransmissionRequest, Sending
<1>2. seqNr[t] \in Nat
  BY <1>0 DEF NumbersOK
<1>3. CASE ~IsNewRequest(t, n)
  BY <1>1, <1>3, SendUnchanged
<1>4. CASE IsNewRequest(t, n)
  <2>1. n \notin seen[t]
    BY <1>4 DEF IsNewRequest
  <2>2. /\ seen' \in [PacketType -> SUBSET Nat] /\ seen'[t] = seen[t] \cup {n}
        /\ \A u \in PacketType : u # t => seen'[u] = seen[u]
    <3>1. seen[t] \cup {n} \in SUBSET Nat
      BY <1>0 DEF NumbersOK
    <3>2. seen' = [seen EXCEPT ![t] = seen[t] \cup {n}]
      BY <1>1, <1>4
    <3> QED
      BY <1>0, <3>1, <3>2 DEF NumbersOK
  <2>3. /\ early' \in [PacketType -> SUBSET Nat]
        /\ early'[t] = IF n < seqNr[t] THEN early[t] ELSE early[t] \cup {n}
        /\ \A u \in PacketType : u # t => early'[u] = early[u]
    <3> DEFINE e == IF n < seqNr[t] THEN early[t] ELSE early[t] \cup {n}
    <3>1. e \in SUBSET Nat
      BY <1>0 DEF NumbersOK
    <3>2. early' = [early EXCEPT ![t] = e]
      BY <1>1, <1>4
    <3> HIDE DEF e
    <3>3. early' \in [PacketType -> SUBSET Nat] /\ early'[t] = e
          /\ \A u \in PacketType : u # t => early'[u] = early[u]
      BY <1>0, <3>1, <3>2 DEF NumbersOK
    <3> QED
      BY <3>3 DEF e
  <2>4. NumbersOK' /\ HistoryOK'
    BY <1>0, <1>1, <2>2, <2>3 DEF NumbersOK, HistoryOK
  <2>5. /\ \A u \in PacketType : seen[u] \subseteq seen'[u] /\ early[u] \subseteq early'[u]
        /\ \A u \in PacketType : \A k \in early'[u] : k \in early[u] \/ ~(k < seqNr[u])
        /\ \A u \in PacketType : \A k \in seen'[u] : k \in seen[u] \/ (u = t /\ k = n)
        /\ \A u \in PacketType : \A k \in early'[u] : k \in early[u] \/ (u = t /\ k = n)
        /\ n \notin early'[t] => n < seqNr[t]
    BY <2>2, <2>3
  <2>6. \A i \in 1..Len(air) : PacketOK(air[i], seqNr, history, seen', early')
    <3>1. \A i \in 1..Len(air) : air[i] \in Packet
      BY <1>0 DEF NumbersOK
    <3> QED
      BY <1>0, <2>5, <3>1, Remembering DEF PacketsOK
  <2>7. InHistory(t, n) <=> n \in ToSet(history[t])
    BY <1>0, InToSet DEF InHistory, NumbersOK
  <2>8. thread["rx"].pc = "rest"
    BY <1>1 DEF AtRest
  <2>9. ASSUME NEW u \in PacketType, NEW k \in seen[u], k \notin early'[u]
        PROVE  /\ k < seqNr[u]
               /\ k \in ToSet(history[u]) =>
                    \E i \in 1..Len(air) :
                      air[i] = [packet_type |-> u, seq |-> k, again |-> TRUE]
    <3>1. /\ k < seqNr[u]
          /\ k \in ToSet(history[u]) =>
               \/ \E i \in 1..Len(air) :
                    air[i] = [packet_type |-> u, seq |-> k, again |-> TRUE]
               \/ thread["rx"] = [pc |-> "inject",
                    packet |-> [packet_type |-> u, seq |-> k, again |-> TRUE]]
      BY <2>5, <2>9 DEF SendInv, AnswersOK, SeenOK
    <3>2. thread["rx"] # [pc |-> "inject",
                          packet |-> [packet_type |-> u, seq |-> k, again |-> TRUE]]
      BY <2>8
    <3> QED
      BY <3>1, <3>2
  <2>10. EarlyOK(seqNr, history, seen', early')
    <3> SUFFICES ASSUME NEW u \in PacketType, NEW k \in early'[u],
                        k >= seqNr[u] \/ k \in ToSet(history[u])
                 PROVE  k \in seen'[u]
      BY DEF EarlyOK
    <3>1. CASE k \in early[u]
      BY <2>5, <3>1 DEF SendInv, AnswersOK, EarlyOK
    <3>2. CASE u = t /\ k = n
      BY <2>2, <3>2
    <3> QED
      BY <2>5, <3>1, <3>2
  <2>11. CASE ~InHistory(t, n)
    <3>1. UNCHANGED <<thread, locked>>
      BY <1>1, <2>11
    <3>2. SeenOK(seqNr, history, seen', early', air, thread["rx"])
      BY <2>5, <2>7, <2>9, <2>11 DEF SeenOK
    <3>3. PacketsOK' /\ OnceOK(air, thread["rx"])
      BY <1>1, <2>6, <2>8, <3>1 DEF SendInv, AnswersOK, PacketsOK
    <3>4. AnswersOK'
      BY <1>1, <2>10, <3>1, <3>2, <3>3 DEF AnswersOK
    <3>5. ThreadsOK'
      BY <1>0, <1>1, <3>1, ThreadsKept
    <3> QED
      BY <2>4, <3>4, <3>5 DEF SendInv
  <2>12. CASE InHistory(t, n)
    <3>1. p \in Packet /\ x.packet = p /\ x.pc = "inject" /\ p.again
      BY DEF Packet
    <3>2. "process" \in Thread /\ "rx" \in Thread /\ "process" # "rx"
      BY DEF Thread
    <3>3. thread' = [thread EXCEPT !["rx"] = x] /\ locked' = TRUE
      BY <1>1, <1>4, <2>12
    <3>4. /\ thread' = [u \in Thread |-> thread'[u]]
          /\ thread'["rx"] = x /\ thread'["process"] = thread["process"]
      BY <1>0, <3>2, <3>3, ThreadUpdate
    <3>5. ThreadOK(x) /\ x # AtRest
      BY <3>1 DEF ThreadOK, AtRest
    <3>6. ThreadsOK'
      BY <1>0, <1>1, <3>1, <3>3, <3>4, <3>5 DEF ThreadsOK
    <3>7. n < seqNr[t]
      <4>1. history[t] \in Seq(Nat) /\ TailOf(history[t], seqNr[t], limit[t])
        BY <1>0 DEF NumbersOK, HistoryOK
      <4> QED
        BY <1>2, <2>7, <2>12, <4>1, TailBelow
    <3>8. n \notin early'[t]
      <4>1. n \notin early[t]
        BY <2>1, <2>7, <2>12 DEF SendInv, AnswersOK, EarlyOK
      <4> QED
        BY <2>3, <3>7, <4>1
    <3>9. PacketOK(p, seqNr, history, seen', early')
      BY <2>2, <3>7, <3>8 DEF PacketOK
    <3>10. SeenOK(seqNr, history, seen', early', air, x)
      BY <2>5, <2>9 DEF SeenOK
    <3>11. \A i \in 1..Len(air) : air[i] # p
      <4> SUFFICES ASSUME NEW i \in 1..Len(air), air[i] = p PROVE FALSE
        OBVIOUS
      <4>1. PacketOK(p, seqNr, history, seen, early)
        BY <1>0 DEF PacketsOK
      <4> QED
        BY <2>1, <2>7, <2>12, <4>1 DEF PacketOK
    <3>12. OnceOK(air, x)
      BY <3>1, <3>11 DEF SendInv, AnswersOK, OnceOK
    <3>13. AnswersOK'
      BY <1>1, <2>6, <2>10, <3>1, <3>4, <3>9, <3>10, <3>12 DEF AnswersOK, PacketsOK
    <3> QED
      BY <2>4, <3>6, <3>13 DEF SendInv
  <2> QED
    BY <2>11, <2>12
<1> QED
  BY <1>3, <1>4

-----------------------------------------------------------------------------
(* The results                                                               *)

\* Nothing is queued, numbered or sent at first.
LEMMA InitIInv == Init => IInv
<1> SUFFICES ASSUME Init PROVE IInv
  OBVIOUS
<1>0. /\ FecModes \subseteq BOOLEAN /\ QueueSize \in Nat /\ HistorySize \in Nat \ {0}
      /\ 0 \in PacketType
  BY WBStreamTxAssumption DEF WBStreamTxAssumption
<1>1. UserInv
  <2>1. <<>> \in Seq(ElementType) /\ Len(<<>>) = 0
    OBVIOUS
  <2>2. stats \in StatsType /\ stats.input = 0 /\ stats.dropped = 0 /\ stats.frames = 0
    BY DEF Init, StatsType
  <2>3. gone \in GoneType /\ Len(gone.lost) = 0 /\ Len(gone.taken) = 0
    BY <2>1 DEF Init, GoneType
  <2>4. work \in [packet_type : PacketType, left : Nat]
    BY <1>0 DEF Init, NoWork
  <2>5. queue \in Seq(ElementType) /\ Len(queue) = 0 /\ Len(queue) <= QueueSize
    BY <1>0, <2>1 DEF Init
  <2>6. PacketsAccounted /\ FramesAccounted
    BY <2>2, <2>3, <2>5 DEF PacketsAccounted, FramesAccounted
  <2>7. enable_fec \in BOOLEAN /\ run \in BOOLEAN /\ LoopOK
    BY <1>0 DEF Init, LoopOK
  <2> QED
    BY <2>2, <2>3, <2>4, <2>5, <2>6, <2>7 DEF UserInv, CountersOK
<1>2. NumbersOK
  <2>1. <<>> \in Seq(Nat) /\ <<>> \in Seq(Packet)
    OBVIOUS
  <2> QED
    BY <1>0, <2>1 DEF Init, NumbersOK
<1>3. HistoryOK
  <2> SUFFICES ASSUME NEW t \in PacketType
               PROVE  history[t] = <<>> /\ seqNr[t] = 0 /\ TailOf(<<>>, 0, limit[t])
    BY DEF HistoryOK
  <2>1. limit[t] \in Nat
    BY <1>2 DEF NumbersOK
  <2> QED
    BY <2>1 DEF Init, TailOf
<1>4. ThreadsOK
  <2>1. thread["process"] = AtRest /\ thread["rx"] = AtRest /\ locked = FALSE
        /\ thread = [u \in Thread |-> thread[u]]
    BY DEF Init, Thread
  <2>2. AtRest.pc = "rest"
    BY DEF AtRest
  <2> QED
    BY <2>1, <2>2 DEF ThreadsOK, ThreadOK
<1>5. AnswersOK
  <2>1. thread["rx"].pc = "rest" /\ Len(air) = 0
    BY DEF Init, Thread, AtRest
  <2>2. \A t \in PacketType : seen[t] = {} /\ early[t] = {}
    BY DEF Init
  <2> QED
    BY <2>1, <2>2 DEF AnswersOK, PacketsOK, SeenOK, EarlyOK, OnceOK
<1> QED
  BY <1>1, <1>2, <1>3, <1>4, <1>5 DEF IInv, SendInv

\* Every step keeps the senders' half.
LEMMA NextSend ==
  ASSUME IInv, [Next]_vars
  PROVE  SendInv'
<1>0. UserInv /\ SendInv /\ "process" \in Thread /\ "rx" \in Thread
  BY DEF IInv, Thread
<1>1. CASE \E i \in Item : \/ \E t \in PacketType : TryEnqueue(i, t) \/ EnqueuePacketDropping(i, t)
                          \/ RejectBlock(i) \/ EnqueueBlockDropping(i)
  BY <1>0, <1>1, SendUnchanged
     DEF TryEnqueue, EnqueuePacketDropping, RejectBlock, EnqueueBlockDropping, Provide, sendVars
<1>2. CASE \E t \in PacketType : \E n \in HistoryLimits : SetMaxHistorySize(t, n)
  BY <1>0, <1>2, SetMaxHistorySizeStep
<1>3. CASE Destroy
  BY <1>0, <1>3, SendUnchanged DEF Destroy, sendVars
<1>4. CASE Process
  <2>1. CASE TestRun \/ Dequeue \/ DequeueNothing
    BY <1>0, <2>1, SendUnchanged DEF TestRun, Dequeue, DequeueNothing, sendVars
  <2>2. CASE PreparePacket
    BY <1>0, <2>2, PreparePacketStep
  <2>3. CASE SendPacket("process")
    BY <1>0, <2>3, InjectStep, LoadCountStep, StoreCountStep DEF SendPacket
  <2> QED
    BY <1>4, <2>1, <2>2, <2>3 DEF Process
<1>5. CASE SendPacket("rx")
  BY <1>0, <1>5, InjectStep, LoadCountStep, StoreCountStep DEF SendPacket
<1>6. CASE \E t \in PacketType : \E n \in RequestNumbers : RetransmissionRequest(t, n)
  BY <1>0, <1>6, WBStreamTxAssumption, RetransmissionRequestStep DEF WBStreamTxAssumption
<1>7. CASE UNCHANGED vars
  BY <1>0, <1>7, SendUnchanged DEF vars
<1> QED
  BY <1>1, <1>2, <1>3, <1>4, <1>5, <1>6, <1>7 DEF Next

\* IInv is an invariant of a sending stream.
LEMMA Invariance == Spec => []IInv
<1>1. IInv /\ [Next]_vars => IInv'
  BY NextUser, NextSend DEF IInv
<1> QED
  BY <1>1, InitIInv, PTL DEF Spec

\* The queue never exceeds its capacity, whatever mix of refusing and clearing
\* calls; counters and numbers do not go below zero.
THEOREM TypeCorrect == Spec => []TypeOK
<1>1. IInv => TypeOK
  <2> SUFFICES ASSUME IInv PROVE TypeOK
    OBVIOUS
  <2>1. UserInv /\ ThreadsOK /\ NumbersOK
    BY DEF IInv, SendInv
  <2>2. \A i \in 1..Len(queue) : queue[i].packet_type \in PacketType
    <3>1. \A i \in 1..Len(queue) : queue[i] \in ElementType
      BY <2>1 DEF UserInv
    <3> QED
      BY <3>1 DEF ElementType
  <2>3. work.left \in Nat /\ work.packet_type \in PacketType
    BY <2>1 DEF UserInv
  <2> QED
    BY <2>1, <2>2, <2>3 DEF TypeOK, UserInv, CountersOK, LoopOK, StatsType, ThreadsOK, NumbersOK
<1> QED
  BY <1>1, Invariance, PTL

\* n_provided_packets and n_dropped_packets account for every packet of a stream
\* without FEC, n_dropped_frames for every frame refused or thrown away with it.
THEOREM DropsAccountedAlways == Spec => []DropsAccounted
<1>1. IInv => DropsAccounted
  BY DEF IInv, UserInv, DropsAccounted
<1> QED
  BY <1>1, Invariance, PTL

\* The history holds the newest packets without a gap, whenever the limit is
\* changed and whatever the other threads do.
THEOREM HistoryIsTailAlways == Spec => []HistoryIsTail
<1>1. IInv => HistoryIsTail
  BY DEF IInv, SendInv, HistoryOK, TailOf, HistoryIsTail
<1> QED
  BY <1>1, Invariance, PTL

\* No packet is retransmitted twice, however often and whenever it is requested:
\* process_retransmission_request forgets a request no earlier than its packet.
THEOREM AnsweredOnceAlways == Spec => []AnsweredOnce
<1>1. IInv => AnsweredOnce
  <2> SUFFICES ASSUME IInv PROVE AnsweredOnce
    OBVIOUS
  <2>1. OnceOK(air, thread["rx"]) /\ air \in Seq(Packet) /\ Len(air) \in Nat
    BY DEF IInv, SendInv, AnswersOK, NumbersOK
  <2>2. CASE thread["rx"].pc = "inject"
    <3> DEFINE p == thread["rx"].packet
               b == air \o <<p>>
    <3>0. ThreadOK(thread["rx"])
      BY DEF IInv, SendInv, ThreadsOK
    <3>1. p \in Packet
      BY <2>2, <3>0, ThreadCases
    <3>2. Injected = b
      BY <2>2 DEF Injected
    <3> HIDE DEF p
    <3>3. /\ Len(b) = Len(air) + 1 /\ b[Len(air) + 1] = p
          /\ \A i \in 1..Len(air) : b[i] = air[i]
          /\ \A i \in 1..Len(b) : i \in 1..Len(air) \/ i = Len(air) + 1
      BY <2>1, <3>1
    <3> HIDE DEF b
    <3>4. \A i \in 1..Len(air) : air[i] # p
      BY <2>1, <2>2 DEF OnceOK, p
    <3>5. ASSUME NEW i \in 1..Len(b), NEW j \in 1..Len(b), b[i].again, b[i] = b[j]
          PROVE  i = j
      BY <2>1, <3>3, <3>4, <3>5 DEF OnceOK
    <3> QED
      BY <3>2, <3>5 DEF AnsweredOnce
  <2>3. CASE thread["rx"].pc # "inject"
    <3>1. Injected = air
      BY <2>1, <2>3 DEF Injected
    <3> QED
      BY <2>1, <3>1 DEF OnceOK, AnsweredOnce
  <2> QED
    BY <2>2, <2>3
<1> QED
  BY <1>1, Invariance, PTL

\* The requests that are remembered, and so will be ignored, are those whose
\* packet was retransmitted and those that came to process_retransmission_request
\* before prepare_and_send_packet gave the number, as long as the packet is kept.
THEOREM SeenAnsweredAlways == Spec => []SeenAnswered
<1>1. IInv => SeenAnswered
  <2> SUFFICES ASSUME IInv, NEW t \in PacketType, NEW n \in seen[t] \cap ToSet(history[t])
               PROVE  Answered(t, n) <=> n \notin early[t]
    BY DEF SeenAnswered
  <2> DEFINE q == [packet_type |-> t, seq |-> n, again |-> TRUE]
             p == thread["rx"].packet
             On(s) == \E i \in 1..Len(s) : s[i] = q
  <2>1. /\ n \notin early[t] => On(air) \/ thread["rx"] = [pc |-> "inject", packet |-> q]
        /\ air \in Seq(Packet) /\ Len(air) \in Nat
    BY DEF IInv, SendInv, AnswersOK, NumbersOK, SeenOK
  <2>2. PacketOK(q, seqNr, history, seen, early) => n \notin early[t]
    BY DEF PacketOK
  <2>3. On(air) => n \notin early[t]
    BY <2>2 DEF IInv, SendInv, AnswersOK, PacketsOK
  <2>4. Answered(t, n) <=> On(Injected)
    BY DEF Answered
  <2> HIDE DEF q
  <2>5. CASE thread["rx"].pc = "inject"
    <3> DEFINE b == air \o <<p>>
    <3>0. ThreadOK(thread["rx"])
      BY DEF IInv, SendInv, ThreadsOK
    <3>1. p \in Packet
      BY <2>5, <3>0, ThreadCases
    <3>2. Injected = b
      BY <2>5 DEF Injected
    <3>3. /\ thread["rx"] = [pc |-> "inject", packet |-> q] => p = q
          /\ PacketOK(p, seqNr, history, seen, early)
      BY <2>5 DEF IInv, SendInv, AnswersOK, PacketsOK
    <3> HIDE DEF p
    <3>4. /\ Len(b) = Len(air) + 1 /\ b[Len(air) + 1] = p
          /\ \A i \in 1..Len(air) : b[i] = air[i]
          /\ \A i \in 1..Len(air) : i \in 1..Len(b)
          /\ \A i \in 1..Len(b) : i \in 1..Len(air) \/ i = Len(air) + 1
          /\ Len(air) + 1 \in 1..Len(b)
      BY <2>1, <3>1
    <3> HIDE DEF b
    <3>5. On(b) <=> On(air) \/ p = q
      BY <3>4
    <3> QED
      BY <2>1, <2>2, <2>3, <2>4, <3>2, <3>3, <3>5
  <2>6. CASE thread["rx"].pc # "inject"
    <3>1. Injected = air
      BY <2>1, <2>6 DEF Injected
    <3>2. thread["rx"] # [pc |-> "inject", packet |-> q]
      BY <2>6
    <3> QED
      BY <2>1, <2>3, <2>4, <3>1, <3>2
  <2> QED
    BY <2>5, <2>6
<1> QED
  BY <1>1, Invariance, PTL

\* After the destructor cleared the flag, loop_process_data takes one element at
\* most, for every capacity and filling of the queue.
THEOREM StopsSoonAlways == Spec => []StopsSoon
<1>1. IInv => StopsSoon
  BY DEF IInv, UserInv, LoopOK, StopsSoon
<1> QED
  BY <1>1, Invariance, PTL
=============================================================================
