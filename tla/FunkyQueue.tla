----------------------------- MODULE FunkyQueue -----------------------------
(***************************************************************************)
(* The queue between a producer and the one thread that consumes:           *)
(* src/wifibroadcast/src/FunkyQueue.h, a std::queue with a mutex and a      *)
(* condition variable.  Everything done under the mutex is one step; a      *)
(* producer notifies after it unlocked, in a step of its own, and a waiting *)
(* consumer gives the mutex up and waits in one step.                       *)
(***************************************************************************)
EXTENDS Integers, Sequences, FiniteSets

CONSTANTS
  m_capacity,   \* room of the queue
  Producer,     \* threads that enqueue
  MaxElements   \* bound: how many elements are offered

ASSUME FunkyQueueAssumption ==
  m_capacity \in Nat \ {0} /\ MaxElements \in Nat

VARIABLES
  queue,     \* the elements, numbered as offered
  offered,   \* how many elements were offered
  refused,   \* elements try_enqueue returned false for
  removed,   \* elements a clearing enqueue threw away, as its results count them
  taken,     \* elements the consumer got, in order
  consumer,  \* "running", "waiting" on cv, or "awake": notified, without the mutex
  toNotify   \* producers between unlock and notify_one

vars == <<queue, offered, refused, removed, taken, consumer, toNotify>>

Init ==
  /\ queue = <<>> /\ taken = <<>>
  /\ offered = 0 /\ refused = 0 /\ removed = 0
  /\ consumer = "running"
  /\ toNotify = {}

\* Mutant: the capacity test is off by one.
FullLate == Len(queue) > m_capacity

Full == Len(queue) >= m_capacity

Offer(p) ==
  /\ p \notin toNotify /\ offered < MaxElements
  /\ offered' = offered + 1
  /\ UNCHANGED <<taken, consumer>>

\* Mutant: the producer does not notify.
TryEnqueueSilent(p) ==
  /\ Offer(p) /\ ~Full
  /\ queue' = Append(queue, offered')
  /\ UNCHANGED <<refused, removed, toNotify>>

TryEnqueue(p) ==
  /\ Offer(p) /\ ~Full
  /\ queue' = Append(queue, offered')
  /\ toNotify' = toNotify \cup {p}
  /\ UNCHANGED <<refused, removed>>

TryEnqueueFull(p) ==
  /\ Offer(p) /\ Full
  /\ refused' = refused + 1
  /\ UNCHANGED <<queue, removed, toNotify>>

\* Mutant: the branch with enough space counts as a removal.
ClearEnqueueCountsOwn(p) ==
  /\ Offer(p)
  /\ queue' = IF Full THEN <<offered'>> ELSE Append(queue, offered')
  /\ removed' = removed + (IF Full THEN Len(queue) + 1 ELSE 0)
  /\ toNotify' = toNotify \cup {p}
  /\ UNCHANGED refused

EnqueueOrClearEnqueue(p) ==
  /\ Offer(p)
  /\ queue' = IF Full THEN <<offered'>> ELSE Append(queue, offered')
  /\ removed' = removed + (IF Full THEN Len(queue) ELSE 0)
  /\ toNotify' = toNotify \cup {p}
  /\ UNCHANGED refused

\* cv.notify_one, with the mutex released.
NotifyOne(p) ==
  /\ p \in toNotify
  /\ toNotify' = toNotify \ {p}
  /\ consumer' = IF consumer = "waiting" THEN "awake" ELSE consumer
  /\ UNCHANGED <<queue, offered, refused, removed, taken>>

-----------------------------------------------------------------------------
(* wait_dequeue_timed *)

\* Mutant: the newest element is taken.
FrontNewest == queue[Len(queue)]

Front == queue[1]

\* Mutant: the consumer decided to wait before it looked at the queue.
MayWaitUnchecked == consumer \in {"running", "awake"}

\* With the mutex held there is nothing to take: wait, for the first time or
\* again (the predicate of wait_for).
MayWait == consumer \in {"running", "awake"} /\ queue = <<>>

Wait ==
  /\ MayWait
  /\ consumer' = "waiting"
  /\ UNCHANGED <<queue, offered, refused, removed, taken, toNotify>>

Dequeue ==
  /\ consumer \in {"running", "awake"} /\ queue # <<>>
  /\ taken' = Append(taken, Front)
  /\ queue' = Tail(queue)
  /\ consumer' = "running"
  /\ UNCHANGED <<offered, refused, removed, toNotify>>

\* The timeout, or a spurious wakeup: the predicate is tested once more.
Timeout ==
  /\ consumer = "waiting"
  /\ consumer' = "awake"
  /\ UNCHANGED <<queue, offered, refused, removed, taken, toNotify>>

\* The timeout with an empty queue: nothing is returned, the loop starts over.
ReturnNothing ==
  /\ consumer = "awake" /\ queue = <<>>
  /\ consumer' = "running"
  /\ UNCHANGED <<queue, offered, refused, removed, taken, toNotify>>

Consume == Wait \/ Dequeue

Next ==
  \/ \E p \in Producer : \/ TryEnqueue(p) \/ TryEnqueueFull(p)
                         \/ EnqueueOrClearEnqueue(p) \/ NotifyOne(p)
  \/ Consume \/ Timeout \/ ReturnNothing

\* The threads are scheduled; the timeout is NOT relied on.
Fairness == WF_vars(Consume) /\ \A p \in Producer : WF_vars(NotifyOne(p))

Spec == Init /\ [][Next]_vars /\ Fairness

-----------------------------------------------------------------------------
(* Correctness *)

\* Type invariant; the queue never holds more than its capacity.
TypeOK ==
  /\ queue \in Seq(1..MaxElements) /\ Len(queue) <= m_capacity
  /\ taken \in Seq(1..MaxElements)
  /\ offered \in 0..MaxElements
  /\ refused \in Nat /\ removed \in Nat
  /\ consumer \in {"running", "waiting", "awake"}
  /\ toNotify \subseteq Producer

\* A consumer never sleeps on a non-empty queue with nobody left to wake it
\* (elements pushed between its test and its wait are not missed).
NoLostWakeup == consumer = "waiting" /\ queue # <<>> => toNotify # {}

\* The elements come out in the order they were offered, and those behind the
\* last one taken are still ahead of it: a cleared queue never reorders.
InOrder ==
  LET all == taken \o queue
  IN \A i, j \in 1..Len(all) : i < j => all[i] < all[j]

\* The results the producers got account for every element that the consumer
\* will never see.
Accounted == offered = refused + removed + Len(queue) + Len(taken)

\* Every element leaves the queue, to the consumer or because the queue was
\* cleared, even if no wait ever times out.
ElementsLeave ==
  \A e \in 1..MaxElements :
    (\E i \in 1..Len(queue) : queue[i] = e) ~> ~(\E i \in 1..Len(queue) : queue[i] = e)
=============================================================================
