-------------------------- MODULE FunkyQueueProofs --------------------------
(***************************************************************************)
(* Proofs about FunkyQueue, for every capacity and any number of producers. *)
(***************************************************************************)
EXTENDS FunkyQueue, TLAPS

\* The sequence that InOrder is about stays sorted below the next number.
Below == \A i \in 1..Len(taken \o queue) : (taken \o queue)[i] <= offered

Inv == TypeOK /\ NoLostWakeup /\ Accounted /\ InOrder /\ Below

-----------------------------------------------------------------------------
(* What an enqueue and a dequeue do to taken \o queue.                       *)

\* Appending a number above all others keeps a sequence sorted.
LEMMA SortedAppend ==
  ASSUME NEW s \in Seq(Nat), NEW n \in Nat,
         \A i \in 1..Len(s) : s[i] <= n,
         \A i, j \in 1..Len(s) : i < j => s[i] < s[j]
  PROVE  LET a == Append(s, n + 1)
         IN /\ \A i, j \in 1..Len(a) : i < j => a[i] < a[j]
            /\ \A i \in 1..Len(a) : a[i] <= n + 1
<1> DEFINE a == Append(s, n + 1)
<1>1. Len(a) = Len(s) + 1 /\ a[Len(s) + 1] = n + 1 /\ \A i \in 1..Len(s) : a[i] = s[i] OBVIOUS
<1>2. \A i \in 1..Len(s) : s[i] \in Nat OBVIOUS
<1> HIDE DEF a
<1>3. \A i \in 1..Len(a) : i \in 1..Len(s) \/ i = Len(s) + 1 BY <1>1
<1>4. ASSUME NEW i \in 1..Len(a), NEW j \in 1..Len(a), i < j
      PROVE  a[i] < a[j]
  <2>1. Len(s) \in Nat OBVIOUS
  <2>2. i \in 1..Len(s) /\ a[i] = s[i] /\ s[i] \in Nat BY <1>1, <1>2, <1>3, <1>4, <2>1
  <2>3. CASE j \in 1..Len(s) BY <1>1, <1>4, <2>2, <2>3
  <2>4. CASE j = Len(s) + 1
    <3>1. s[i] <= n BY <2>2
    <3> QED BY <1>1, <2>2, <2>4, <3>1
  <2> QED BY <1>3, <2>3, <2>4
<1>5. \A i \in 1..Len(a) : a[i] <= n + 1 BY <1>1, <1>2, <1>3
<1> QED BY <1>4, <1>5 DEF a

\* Appending is concatenating one element.
LEMMA AppendConcat ==
  ASSUME NEW s \in Seq(Nat), NEW t \in Seq(Nat), NEW n \in Nat
  PROVE  s \o Append(t, n) = Append(s \o t, n)
OBVIOUS

\* Clearing the queue keeps only what was taken.
LEMMA SortedPrefix ==
  ASSUME NEW s \in Seq(Nat), NEW t \in Seq(Nat), NEW n \in Nat,
         \A i \in 1..Len(s \o t) : (s \o t)[i] <= n,
         \A i, j \in 1..Len(s \o t) : i < j => (s \o t)[i] < (s \o t)[j]
  PROVE  /\ \A i \in 1..Len(s) : s[i] <= n
         /\ \A i, j \in 1..Len(s) : i < j => s[i] < s[j]
<1>1. \A i \in 1..Len(s) : i \in 1..Len(s \o t) /\ (s \o t)[i] = s[i] OBVIOUS
<1> DEFINE c == s \o t
<1> HIDE DEF c
<1>2. \A i \in 1..Len(s) : i \in 1..Len(c) /\ c[i] = s[i] BY <1>1 DEF c
<1>3. /\ \A i \in 1..Len(c) : c[i] <= n
      /\ \A i, j \in 1..Len(c) : i < j => c[i] < c[j]
  BY DEF c
<1>4. \A i \in 1..Len(s) : s[i] <= n
  <2> TAKE i \in 1..Len(s)
  <2> QED BY <1>2, <1>3, Zenon
<1>5. \A i, j \in 1..Len(s) : i < j => s[i] < s[j]
  <2> TAKE i, j \in 1..Len(s)
  <2> QED BY <1>2, <1>3, Zenon
<1> QED BY <1>4, <1>5

\* Dequeueing moves the border between the two parts.
LEMMA DequeueConcat ==
  ASSUME NEW s \in Seq(Nat), NEW t \in Seq(Nat), t # <<>>
  PROVE  Append(s, t[1]) \o Tail(t) = s \o t
OBVIOUS
\* The first element of a sequence has the type of its elements.
LEMMA HeadType ==
  ASSUME NEW S, NEW s \in Seq(S), s # <<>>
  PROVE  s[1] \in S
<1>1. Len(s) \in Nat /\ Len(s) # 0 OBVIOUS
<1>2. 1 \in 1..Len(s) BY <1>1
<1>3. \A i \in 1..Len(s) : s[i] \in S OBVIOUS
<1> QED BY <1>2, <1>3, Zenon

\* A sequence of the first m items is a sequence of naturals.
LEMMA SeqOfNats ==
  ASSUME NEW m \in Nat, NEW s \in Seq(1..m)
  PROVE  s \in Seq(Nat)
<1>1. Len(s) \in Nat /\ s = [i \in 1..Len(s) |-> s[i]] OBVIOUS
<1>2. \A i \in 1..Len(s) : s[i] \in 1..m OBVIOUS
<1>3. \A i \in 1..Len(s) : s[i] \in Nat BY <1>2
<1> QED BY <1>1, <1>3

-----------------------------------------------------------------------------
(* The parts of the inductive invariant                                      *)

\* The invariant holds when the queue is constructed.
LEMMA TypeInit == Init => Inv
<1> SUFFICES ASSUME Init PROVE Inv OBVIOUS
<1> USE DEF Init
<1>1. TypeOK BY FunkyQueueAssumption DEF TypeOK, FunkyQueueAssumption
<1>2. NoLostWakeup BY DEF NoLostWakeup
<1>3. Accounted BY DEF Accounted
<1>4. Len(taken \o queue) = 0 OBVIOUS
<1>5. InOrder BY <1>4 DEF InOrder
<1>6. Below BY <1>4 DEF Below
<1> QED BY <1>1, <1>2, <1>3, <1>5, <1>6 DEF Inv

\* Every step keeps the types.
LEMMA TypeStep ==
  ASSUME TypeOK, [Next]_vars
  PROVE  TypeOK'
<1> USE DEF TypeOK
<1>0. m_capacity \in Nat \ {0} /\ MaxElements \in Nat
  BY FunkyQueueAssumption DEF FunkyQueueAssumption
<1>1. ASSUME NEW p \in Producer, Offer(p)
      PROVE  offered' \in 1..MaxElements /\ taken' \in Seq(1..MaxElements)
             /\ consumer' \in {"running", "waiting", "awake"}
  BY <1>0, <1>1 DEF Offer
<1>2. ASSUME NEW n \in 1..MaxElements PROVE <<n>> \in Seq(1..MaxElements) /\ Len(<<n>>) = 1
  BY <1>2
<1>3. Len(queue) \in Nat OBVIOUS
<1>4. CASE \E p \in Producer : TryEnqueue(p)
  <2> PICK p \in Producer : TryEnqueue(p) BY <1>4
  <2>1. offered' \in 1..MaxElements /\ taken' \in Seq(1..MaxElements)
        /\ consumer' \in {"running", "waiting", "awake"}
    BY <1>1 DEF TryEnqueue
  <2>2. queue' = Append(queue, offered') /\ Len(queue) < m_capacity
    BY <1>0, <1>3 DEF TryEnqueue, Full
  <2>3. queue' \in Seq(1..MaxElements) /\ Len(queue') = Len(queue) + 1 BY <2>1, <2>2
  <2> QED BY <1>0, <1>3, <2>1, <2>2, <2>3 DEF TryEnqueue
<1>5. CASE \E p \in Producer : TryEnqueueFull(p)
  <2> PICK p \in Producer : TryEnqueueFull(p) BY <1>5
  <2> QED BY <1>0, <1>1 DEF TryEnqueueFull
<1>6. CASE \E p \in Producer : EnqueueOrClearEnqueue(p)
  <2> PICK p \in Producer : EnqueueOrClearEnqueue(p) BY <1>6
  <2>1. offered' \in 1..MaxElements /\ taken' \in Seq(1..MaxElements)
        /\ consumer' \in {"running", "waiting", "awake"}
    BY <1>1 DEF EnqueueOrClearEnqueue
  <2>2. queue' \in Seq(1..MaxElements) /\ Len(queue') <= m_capacity
    <3>1. CASE Full
      <4>1. queue' = <<offered'>> BY <3>1 DEF EnqueueOrClearEnqueue
      <4> QED BY <1>0, <1>2, <2>1, <4>1
    <3>2. CASE ~Full
      <4>1. queue' = Append(queue, offered') BY <3>2 DEF EnqueueOrClearEnqueue
      <4>2. Len(queue) < m_capacity BY <1>0, <1>3, <3>2 DEF Full
      <4>3. queue' \in Seq(1..MaxElements) /\ Len(queue') = Len(queue) + 1 BY <2>1, <4>1
      <4> QED BY <1>0, <1>3, <4>2, <4>3
    <3> QED BY <3>1, <3>2
  <2>3. removed' \in Nat BY <1>3 DEF EnqueueOrClearEnqueue
  <2> QED BY <1>0, <2>1, <2>2, <2>3 DEF EnqueueOrClearEnqueue
<1>7. CASE \E p \in Producer : NotifyOne(p)
  BY <1>7 DEF NotifyOne
<1>8. CASE Dequeue
  <2>0. queue # <<>> BY <1>8 DEF Dequeue
  <2>1. queue # <<>> /\ queue[1] \in 1..MaxElements BY <2>0, HeadType
  <2>2. taken' = Append(taken, queue[1]) /\ queue' = Tail(queue) BY <1>8 DEF Dequeue, Front
  <2>3. taken' \in Seq(1..MaxElements) /\ queue' \in Seq(1..MaxElements)
    BY <2>1, <2>2
  <2>4. Len(queue') = Len(queue) - 1 BY <2>1, <2>2
  <2>5. Len(queue') <= m_capacity BY <1>0, <1>3, <2>4
  <2> QED BY <1>8, <2>3, <2>5 DEF Dequeue
<1>9. CASE Wait \/ Timeout \/ ReturnNothing BY <1>9 DEF Wait, Timeout, ReturnNothing
<1>10. CASE UNCHANGED vars BY <1>10 DEF vars
<1> QED BY <1>4, <1>5, <1>6, <1>7, <1>8, <1>9, <1>10 DEF Next, Consume

\* Every step keeps the link between a waiting consumer and its wakeup.
LEMMA NoLostWakeupStep ==
  ASSUME NoLostWakeup, [Next]_vars
  PROVE  NoLostWakeup'
<1> USE DEF NoLostWakeup
<1>1. CASE \E p \in Producer : TryEnqueue(p) \/ EnqueueOrClearEnqueue(p)
  BY <1>1 DEF TryEnqueue, EnqueueOrClearEnqueue
<1>2. CASE \E p \in Producer : TryEnqueueFull(p)
  BY <1>2 DEF TryEnqueueFull, Offer
<1>3. CASE \E p \in Producer : NotifyOne(p)
  \* The one sleeper is woken by whoever notifies first.
  BY <1>3 DEF NotifyOne
<1>4. CASE Wait BY <1>4 DEF Wait, MayWait
<1>5. CASE Dequeue BY <1>5 DEF Dequeue
<1>6. CASE Timeout \/ ReturnNothing BY <1>6 DEF Timeout, ReturnNothing
<1>7. CASE UNCHANGED vars BY <1>7 DEF vars
<1> QED BY <1>1, <1>2, <1>3, <1>4, <1>5, <1>6, <1>7 DEF Next, Consume

\* Every step keeps the account of the items.
LEMMA AccountedStep ==
  ASSUME TypeOK, Accounted, [Next]_vars
  PROVE  Accounted'
<1> USE DEF Accounted
<1>0. /\ Len(queue) \in Nat /\ Len(taken) \in Nat /\ offered \in Nat
      /\ refused \in Nat /\ removed \in Nat
  BY DEF TypeOK
<1>1. CASE \E p \in Producer : TryEnqueue(p)
  <2> PICK p \in Producer : TryEnqueue(p) BY <1>1
  <2>1. Len(queue') = Len(queue) + 1 BY DEF TryEnqueue, TypeOK
  <2> QED BY <1>0, <2>1 DEF TryEnqueue, Offer
<1>2. CASE \E p \in Producer : TryEnqueueFull(p)
  BY <1>0, <1>2 DEF TryEnqueueFull, Offer
<1>3. CASE \E p \in Producer : EnqueueOrClearEnqueue(p)
  <2> PICK p \in Producer : EnqueueOrClearEnqueue(p) BY <1>3
  <2>1. offered' = offered + 1 /\ UNCHANGED <<taken, refused>>
    BY DEF EnqueueOrClearEnqueue, Offer
  <2>2. CASE Full
    <3>1. Len(queue') = 1 /\ removed' = removed + Len(queue)
      BY <2>2 DEF EnqueueOrClearEnqueue
    <3> QED BY <1>0, <2>1, <3>1
  <2>3. CASE ~Full
    <3>1. Len(queue') = Len(queue) + 1 BY <2>3 DEF EnqueueOrClearEnqueue, TypeOK
    <3>2. removed' = removed BY <1>0, <2>3 DEF EnqueueOrClearEnqueue
    <3> QED BY <1>0, <2>1, <3>1, <3>2
  <2> QED BY <2>2, <2>3
<1>4. CASE \E p \in Producer : NotifyOne(p) BY <1>4 DEF NotifyOne
<1>5. CASE Dequeue
  <2>1. queue # <<>> /\ taken' = Append(taken, queue[1]) /\ queue' = Tail(queue)
    BY <1>5 DEF Dequeue, Front
  <2>2. Len(taken') = Len(taken) + 1 /\ Len(queue') = Len(queue) - 1
    BY <2>1 DEF TypeOK
  <2> QED BY <1>0, <1>5, <2>2 DEF Dequeue
<1>6. CASE Wait \/ Timeout \/ ReturnNothing BY <1>6 DEF Wait, Timeout, ReturnNothing
<1>7. CASE UNCHANGED vars BY <1>7 DEF vars
<1> QED BY <1>1, <1>2, <1>3, <1>4, <1>5, <1>6, <1>7 DEF Next, Consume

\* Every step keeps the order of the items.
LEMMA InOrderStep ==
  ASSUME TypeOK, InOrder, Below, [Next]_vars
  PROVE  InOrder' /\ Below'
<1>0. queue \in Seq(Nat) /\ taken \in Seq(Nat) /\ offered \in Nat
  <2>1. MaxElements \in Nat BY FunkyQueueAssumption DEF FunkyQueueAssumption
  <2>2. queue \in Seq(Nat) BY <2>1, SeqOfNats DEF TypeOK
  <2>3. taken \in Seq(Nat) BY <2>1, SeqOfNats DEF TypeOK
  <2> QED BY <2>2, <2>3 DEF TypeOK
<1>1. ASSUME taken' \o queue' = Append(taken \o queue, offered + 1), offered' = offered + 1
      PROVE  InOrder' /\ Below'
  <2> DEFINE s == taken \o queue
  <2>1. s \in Seq(Nat) BY <1>0
  <2>2. /\ \A i \in 1..Len(s) : s[i] <= offered
        /\ \A i, j \in 1..Len(s) : i < j => s[i] < s[j]
    BY DEF InOrder, Below
  <2>3. taken' \o queue' = Append(s, offered + 1) BY <1>1
  <2> HIDE DEF s
  <2> DEFINE a == Append(s, offered + 1)
  <2>4. /\ \A i, j \in 1..Len(a) : i < j => a[i] < a[j]
        /\ \A i \in 1..Len(a) : a[i] <= offered + 1
    BY <1>0, <2>1, <2>2, SortedAppend
  <2> HIDE DEF a
  <2>5. taken' \o queue' = a BY <2>3 DEF a
  <2> QED BY <1>1, <2>4, <2>5 DEF InOrder, Below
<1>2. ASSUME taken' \o queue' = taken \o queue, offered' \in Nat, offered <= offered'
      PROVE  InOrder' /\ Below'
  <2>1. InOrder' BY <1>2 DEF InOrder
  <2>2. \A i \in 1..Len(taken \o queue) : (taken \o queue)[i] \in Nat BY <1>0
  <2>3. \A i \in 1..Len(taken \o queue) : (taken \o queue)[i] <= offered' 
    BY <1>0, <1>2, <2>2 DEF Below
  <2>4. Below' BY <1>2, <2>3 DEF Below
  <2> QED BY <2>1, <2>4
<1>3. CASE \E p \in Producer : TryEnqueue(p)
  BY <1>0, <1>1, <1>3, AppendConcat DEF TryEnqueue, Offer
<1>4. CASE \E p \in Producer : TryEnqueueFull(p)
  <2>1. offered' = offered + 1 /\ UNCHANGED <<taken, queue>> BY <1>4 DEF TryEnqueueFull, Offer
  <2> QED BY <1>0, <1>2, <2>1
<1>5. CASE \E p \in Producer : EnqueueOrClearEnqueue(p)
  <2> PICK p \in Producer : EnqueueOrClearEnqueue(p) BY <1>5
  <2>1. offered' = offered + 1 /\ taken' = taken BY DEF EnqueueOrClearEnqueue, Offer
  <2>2. CASE Full
    <3>1. taken' \o queue' = Append(taken, offered + 1)
      BY <1>0, <2>1, <2>2 DEF EnqueueOrClearEnqueue
    <3>2. /\ \A i \in 1..Len(taken) : taken[i] <= offered
          /\ \A i, j \in 1..Len(taken) : i < j => taken[i] < taken[j]
      BY <1>0, SortedPrefix DEF InOrder, Below
    <3> QED BY <1>0, <2>1, <3>1, <3>2, SortedAppend DEF InOrder, Below
  <2>3. CASE ~Full
    <3>1. queue' = Append(queue, offered + 1)
      BY <2>1, <2>3 DEF EnqueueOrClearEnqueue
    <3> QED BY <1>0, <1>1, <2>1, <3>1, AppendConcat
  <2> QED BY <2>2, <2>3
<1>6. CASE Dequeue
  <2>1. queue # <<>> /\ taken' = Append(taken, queue[1]) /\ queue' = Tail(queue)
        /\ offered' = offered
    BY <1>6 DEF Dequeue, Front
  <2>2. taken' \o queue' = taken \o queue BY <1>0, <2>1, DequeueConcat
  <2> QED BY <1>0, <1>2, <2>1, <2>2
<1>7. CASE (\E p \in Producer : NotifyOne(p)) \/ Wait \/ Timeout \/ ReturnNothing \/ UNCHANGED vars
  <2>1. UNCHANGED <<queue, taken, offered>>
    BY <1>7 DEF NotifyOne, Wait, Timeout, ReturnNothing, vars
  <2> QED BY <1>0, <1>2, <2>1
<1> QED BY <1>3, <1>4, <1>5, <1>6, <1>7 DEF Next, Consume

\* The queue's invariant, for every capacity and number of producers.
THEOREM QueueInvariant == Spec => []Inv
<1>1. Init => Inv BY TypeInit
<1>2. Inv /\ [Next]_vars => Inv'
  BY TypeStep, NoLostWakeupStep, AccountedStep, InOrderStep DEF Inv
<1> QED BY <1>1, <1>2, PTL DEF Spec

\* The queue never holds more than its capacity (FunkyQueue.h:27, :40).
THEOREM TypeCorrect == Spec => []TypeOK
<1>1. Inv => TypeOK BY DEF Inv
<1> QED BY <1>1, QueueInvariant, PTL

\* A consumer asleep on a non-empty queue always has a notification coming,
\* although producers notify after they unlocked (FunkyQueue.h:31-32, :51-52).
THEOREM NoLostWakeupAlways == Spec => []NoLostWakeup
<1>1. Inv => NoLostWakeup BY DEF Inv
<1> QED BY <1>1, QueueInvariant, PTL

\* The results of the enqueue operations account for every element that is
\* neither queued nor taken (FunkyQueue.h:28, :42, :47, :53).
THEOREM AccountedAlways == Spec => []Accounted
<1>1. Inv => Accounted BY DEF Inv
<1> QED BY <1>1, QueueInvariant, PTL

\* First in, first out, across clearing enqueues (FunkyQueue.h:43-44).
THEOREM InOrderAlways == Spec => []InOrder
<1>1. Inv => InOrder BY DEF Inv
<1> QED BY <1>1, QueueInvariant, PTL
=============================================================================
