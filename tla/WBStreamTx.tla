----------------------------- MODULE WBStreamTx -----------------------------
(***************************************************************************)
(* One sending stream: src/wifibroadcast/src/WBStreamTx.{h,cpp}.            *)
(*                                                                         *)
(* Three threads share the object: the user's, which enqueues packets       *)
(* (FEC disabled) or blocks (FEC enabled); the processing thread, which     *)
(* dequeues them, numbers their packets and injects them; and the receive   *)
(* thread of WBTxRx, which answers retransmission requests from the history *)
(* of sent packets.  m_history_mutex protects numbers, history and requests *)
(* but not the statistics.  The queue is used by its atomic operations      *)
(* (module FunkyQueue).                                                     *)
(***************************************************************************)
EXTENDS Integers, Sequences, FiniteSets, SequencesExt, FiniteSetsExt

CONSTANTS
  FecModes,         \* values of options.enable_fec to explore
  QueueSize,        \* capacity of the packet or block queue
  PacketType,       \* the packet types in use, with 0 (VIDEO) among them
  default_packet_type, enable_retransmission, retransmission_packet_type_mask,
  Item,             \* [fragments, packets]: input packets it counts for, packets it becomes
  HistorySize,      \* initial history limit (DEFAULT_HISTORY_SIZE)
  HistoryLimits,    \* arguments of set_max_history_size_for_type
  MaxItems,         \* bound: elements enqueued
  RequestNumbers    \* bound: the numbers a receiver may ask for, however often

ASSUME WBStreamTxAssumption ==
  /\ FecModes \subseteq BOOLEAN
  /\ QueueSize \in Nat \ {0} /\ HistorySize \in Nat \ {0}
  /\ 0 \in PacketType /\ PacketType \subseteq 0..255 /\ default_packet_type \in PacketType
  /\ enable_retransmission \in BOOLEAN
  /\ retransmission_packet_type_mask \subseteq 0..7
  /\ Item \subseteq [fragments : Nat \ {0}, packets : Nat]
  /\ HistoryLimits \subseteq Nat
  /\ MaxItems \in Nat /\ RequestNumbers \subseteq Nat

VARIABLES
  enable_fec,      \* constant over a behaviour
  queue,           \* m_packet_queue or m_block_queue
  stats,           \* m_n_input_packets, m_n_dropped_packets, m_n_dropped_frames, m_n_injected_packets
  work,            \* the element being processed: its type and the packets left
  run,             \* m_process_data_thread_run
  loop,            \* loop_process_data: at the test of run, in the timed wait, or returned
  seqNr,           \* m_sequence_numbers_by_type
  history,         \* m_sent_packets_history_by_type, as sequence numbers
  limit,           \* m_max_history_size_by_type
  seen,            \* m_seen_retransmission_requests, as sequence numbers
  thread,          \* per thread: where it is in send_packet
  locked,          \* m_history_mutex is held across send_packet
  air,             \* auxiliary: the packets injected, in order
  gone,            \* auxiliary: the elements refused or removed, and those processed
  early,           \* auxiliary: per type, the numbers first asked for before they were given
  late,            \* auxiliary: how many elements were taken after run was cleared
  items            \* how many so far, for the bound

vars == <<enable_fec, queue, stats, work, run, loop, seqNr, history, limit, seen,
          thread, locked, air, gone, early, late, items>>

userVars == <<queue, stats, gone, items>>
sendVars == <<seqNr, history, limit, seen, thread, locked, air, early>>

Thread == {"process", "rx"}
AtRest == [pc |-> "rest"]
NoWork == [packet_type |-> 0, left |-> 0]

Init ==
  /\ enable_fec \in FecModes
  /\ queue = <<>>
  /\ stats = [input |-> 0, dropped |-> 0, frames |-> 0, injected |-> 0]
  /\ work = NoWork
  /\ run = TRUE /\ loop = "test"
  /\ seqNr = [t \in PacketType |-> 0]
  /\ history = [t \in PacketType |-> <<>>]
  /\ limit = [t \in PacketType |-> HistorySize]
  /\ seen = [t \in PacketType |-> {}]
  /\ thread = [t \in Thread |-> AtRest]
  /\ locked = FALSE
  /\ air = <<>>
  /\ gone = [lost |-> <<>>, taken |-> <<>>]
  /\ early = [t \in PacketType |-> {}]
  /\ late = 0 /\ items = 0

RetransmissionEnabled(t) ==
  /\ enable_retransmission
  /\ IF retransmission_packet_type_mask = {}
     THEN t = default_packet_type
     ELSE t \in retransmission_packet_type_mask

-----------------------------------------------------------------------------
(* The user's thread *)

\* Mutant: the capacity test is off by one.
FullLate == Len(queue) > QueueSize

Full == Len(queue) >= QueueSize

\* With FEC disabled every element is one packet.
Provide(i) ==
  /\ run /\ items < MaxItems
  /\ ~enable_fec => i.fragments = 1
  /\ items' = items + 1
  /\ UNCHANGED <<enable_fec, work, run, loop, late, sendVars>>

Element(i, t) == [fragments |-> i.fragments, packets |-> i.packets, packet_type |-> t]

\* A failed try_enqueue: the new element is the one that is dropped.
Refusal(i) ==
  [stats EXCEPT !.input = @ + i.fragments, !.dropped = @ + i.fragments,
                !.frames = IF enable_fec THEN @ + 1 ELSE @]

\* try_enqueue_{packet,block,frame}_with_type
TryEnqueue(i, t) ==
  /\ Provide(i)
  /\ IF Full
     THEN /\ stats' = Refusal(i)
          /\ gone' = [gone EXCEPT !.lost = Append(@, Element(i, t))]
          /\ UNCHANGED queue
     ELSE /\ stats' = [stats EXCEPT !.input = @ + i.fragments]
          /\ queue' = Append(queue, Element(i, t))
          /\ UNCHANGED gone

\* A fragment of the block is empty or too large: nothing is enqueued.
RejectBlock(i) ==
  /\ Provide(i) /\ enable_fec
  /\ stats' = [stats EXCEPT !.input = @ + i.fragments]
  /\ UNCHANGED <<queue, gone>>

ClearedQueue(i, t) == IF Full THEN <<Element(i, t)>> ELSE Append(queue, Element(i, t))

\* Mutant: the new packet counts as dropped with the ones it displaced.
NumDroppedWithOwn == IF Full THEN Len(queue) + 1 ELSE 0

NumDropped == IF Full THEN Len(queue) ELSE 0

EnqueuePacketDropping(i, t) ==
  /\ Provide(i) /\ ~enable_fec
  /\ queue' = ClearedQueue(i, t)
  /\ stats' = [stats EXCEPT !.input = @ + i.fragments, !.dropped = @ + NumDropped]
  /\ gone' = [gone EXCEPT !.lost = IF Full THEN @ \o queue ELSE @]

\* The type of the element is not set: it stays 0, the value the element is
\* created with.  The fragments of the new block are counted as dropped.
EnqueueBlockDropping(i) ==
  /\ Provide(i) /\ enable_fec
  /\ queue' = ClearedQueue(i, 0)
  /\ stats' = [stats EXCEPT !.input = @ + i.fragments,
                            !.dropped = IF NumDropped # 0 THEN @ + i.fragments ELSE @,
                            !.frames = @ + NumDropped]
  /\ gone' = [gone EXCEPT !.lost = IF Full THEN @ \o queue ELSE @]

\* set_max_history_size_for_type: shrinking forgets the oldest packets and the
\* requests for them.
SetMaxHistorySize(t, n) ==
  LET size == IF n < 1 THEN 1 ELSE n
      drop == Max({0, Len(history[t]) - size})
  IN /\ ~locked /\ limit[t] # size
     /\ limit' = [limit EXCEPT ![t] = size]
     /\ history' = [history EXCEPT ![t] = SubSeq(@, drop + 1, Len(@))]
     /\ seen' = [seen EXCEPT ![t] = @ \ ToSet(SubSeq(history[t], 1, drop))]
     /\ UNCHANGED <<enable_fec, userVars, work, run, loop, late, seqNr, thread, locked, air, early>>

\* The destructor unregisters the request handler and tells the thread to stop.
Destroy ==
  /\ run
  /\ run' = FALSE
  /\ UNCHANGED <<enable_fec, userVars, work, loop, late, sendVars>>

-----------------------------------------------------------------------------
(* The processing thread *)

\* Mutant: the loop goes on until the queue is empty.
GoesOnDrained == run \/ queue # <<>>

GoesOn == run

\* The condition of the while loop, between two elements.
TestRun ==
  /\ loop = "test" /\ work.left = 0 /\ thread["process"] = AtRest
  /\ loop' = IF GoesOn THEN "wait" ELSE "end"
  /\ UNCHANGED <<enable_fec, userVars, work, run, late, sendVars>>

\* wait_dequeue_timed returns the oldest element.  The flag is not looked at
\* again: the stream may have been destroyed since it was tested.
Dequeue ==
  /\ loop = "wait" /\ queue # <<>>
  /\ loop' = "test"
  /\ work' = [packet_type |-> queue[1].packet_type, left |-> queue[1].packets]
  /\ queue' = Tail(queue)
  /\ gone' = [gone EXCEPT !.taken = Append(@, queue[1])]
  /\ late' = IF run THEN late ELSE late + 1
  /\ UNCHANGED <<enable_fec, stats, run, items, sendVars>>

\* Mutant: the wait has no time limit.
NeverGivesUp == FALSE

GivesUp == queue = <<>>

\* wait_dequeue_timed returns nothing after its 100 ms.
DequeueNothing ==
  /\ loop = "wait" /\ GivesUp
  /\ loop' = "test"
  /\ UNCHANGED <<enable_fec, userVars, work, run, late, sendVars>>

Sending(t, n, again) == [pc |-> "inject", packet |-> [packet_type |-> t, seq |-> n, again |-> again]]

\* Mutant: the history is trimmed before the new packet is stored.
TrimmedBefore(t) ==
  LET h == history[t]
  IN Append(SubSeq(h, 1 + Max({0, Len(h) - limit[t]}), Len(h)), seqNr[t])

\* The history with the packet about to be sent.
Remembered(t) ==
  LET h == Append(history[t], seqNr[t])
  IN SubSeq(h, 1 + Max({0, Len(h) - limit[t]}), Len(h))

\* The requests for the packets that leave the history are forgotten.
SeenAfter(t) ==
  seen[t] \ (ToSet(Append(history[t], seqNr[t])) \ ToSet(Remembered(t)))

\* The part of prepare_and_send_packet under the mutex.
PreparePacket ==
  LET t == work.packet_type
  IN /\ work.left > 0 /\ thread["process"] = AtRest /\ ~locked
     /\ work' = [work EXCEPT !.left = @ - 1]
     /\ seqNr' = [seqNr EXCEPT ![t] = @ + 1]
     /\ thread' = [thread EXCEPT !["process"] = Sending(t, seqNr[t], FALSE)]
     /\ IF RetransmissionEnabled(t)
        THEN /\ history' = [history EXCEPT ![t] = Remembered(t)]
             /\ seen' = [seen EXCEPT ![t] = SeenAfter(t)]
        ELSE UNCHANGED <<history, seen>>
     /\ UNCHANGED <<enable_fec, userVars, run, loop, late, limit, locked, air, early>>

-----------------------------------------------------------------------------
(* send_packet, in either thread: inject, then add one to the count, which is *)
(* not atomic (a plain int64_t): load and store.                              *)

Inject(th) ==
  /\ thread[th].pc = "inject"
  /\ air' = Append(air, thread[th].packet)
  /\ thread' = [thread EXCEPT ![th] = [pc |-> "load"]]
  /\ UNCHANGED <<enable_fec, userVars, work, run, loop, late, seqNr, history, limit, seen, locked, early>>

LoadCount(th) ==
  /\ thread[th].pc = "load"
  /\ thread' = [thread EXCEPT ![th] = [pc |-> "store", count |-> stats.injected]]
  /\ UNCHANGED <<enable_fec, userVars, work, run, loop, late, seqNr, history, limit, seen, locked, air, early>>

StoreCount(th) ==
  /\ thread[th].pc = "store"
  /\ stats' = [stats EXCEPT !.injected = thread[th].count + 1]
  /\ thread' = [thread EXCEPT ![th] = AtRest]
  /\ locked' = IF th = "rx" THEN FALSE ELSE locked
  /\ UNCHANGED <<enable_fec, queue, gone, items, work, run, loop, late, seqNr, history, limit, seen, air, early>>

SendPacket(th) == Inject(th) \/ LoadCount(th) \/ StoreCount(th)

-----------------------------------------------------------------------------
(* The receive thread *)

\* Mutant: a repeated request is answered again.
IsNewRequestAlways(t, n) == RetransmissionEnabled(t)

\* The request passes the early returns.
IsNewRequest(t, n) == RetransmissionEnabled(t) /\ n \notin seen[t]

\* Mutant: the search misses the oldest packet.
InHistoryFromSecond(t, n) == \E i \in 2..Len(history[t]) : history[t][i] = n

InHistory(t, n) == \E i \in 1..Len(history[t]) : history[t][i] = n

\* process_retransmission_request, for any number, also one that was not given
\* yet; the mutex is kept until the packet is sent.
RetransmissionRequest(t, n) ==
  /\ run /\ thread["rx"] = AtRest /\ ~locked
  /\ IF IsNewRequest(t, n)
     THEN /\ seen' = [seen EXCEPT ![t] = @ \cup {n}]
          /\ early' = [early EXCEPT ![t] = IF n < seqNr[t] THEN @ ELSE @ \cup {n}]
     ELSE UNCHANGED <<seen, early>>
  /\ IF IsNewRequest(t, n) /\ InHistory(t, n)
     THEN thread' = [thread EXCEPT !["rx"] = Sending(t, n, TRUE)] /\ locked' = TRUE
     ELSE UNCHANGED <<thread, locked>>
  /\ UNCHANGED <<enable_fec, userVars, work, run, loop, late, seqNr, history, limit, air>>

Process == TestRun \/ Dequeue \/ DequeueNothing \/ PreparePacket \/ SendPacket("process")

Next ==
  \/ \E i \in Item :
       \/ \E t \in PacketType : TryEnqueue(i, t) \/ EnqueuePacketDropping(i, t)
       \/ RejectBlock(i) \/ EnqueueBlockDropping(i)
  \/ \E t \in PacketType : \E n \in HistoryLimits : SetMaxHistorySize(t, n)
  \/ Destroy
  \/ Process
  \/ SendPacket("rx")
  \/ \E t \in PacketType : \E n \in RequestNumbers : RetransmissionRequest(t, n)

\* Both threads are scheduled, and a timed wait ends; nobody has to enqueue,
\* request or stop.
Fairness == WF_vars(Process) /\ WF_vars(SendPacket("rx"))

Spec == Init /\ [][Next]_vars /\ Fairness

-----------------------------------------------------------------------------
(* Correctness *)

\* Type invariant; the queue never holds more than its capacity.
TypeOK ==
  /\ Len(queue) <= QueueSize
  /\ \A i \in 1..Len(queue) : queue[i].packet_type \in PacketType
  /\ stats \in [{"input", "dropped", "frames", "injected"} -> Nat]
  /\ work.left \in Nat /\ work.packet_type \in PacketType
  /\ run \in BOOLEAN /\ loop \in {"test", "wait", "end"} /\ locked \in BOOLEAN
  /\ seqNr \in [PacketType -> Nat] /\ limit \in [PacketType -> Nat \ {0}]

\* Telemetry: every packet fed to the stream is counted as dropped, waits in
\* the queue or was handed to the processing thread, whatever mix of refusing
\* and clearing calls the user makes (n_provided_packets, n_dropped_packets).
PacketsAccounted ==
  ~enable_fec =>
    /\ stats.dropped = Len(gone.lost)
    /\ stats.input = stats.dropped + Len(queue) + Len(gone.taken)

\* Video: n_dropped_frames counts every frame that was refused or thrown away.
FramesAccounted == enable_fec => stats.frames = Len(gone.lost)

\* Either way, what the enqueue calls refuse or throw away is in the counters.
DropsAccounted == PacketsAccounted /\ FramesAccounted

\* The history of a type is the gapless tail of what was numbered, as long as
\* its limit allows, so the packets in it are the newest ones.
HistoryIsTail ==
  \A t \in PacketType : RetransmissionEnabled(t) =>
    /\ Len(history[t]) <= limit[t]
    /\ seqNr[t] > 0 => history[t] # <<>>
    /\ \A i \in 1..Len(history[t]) : history[t][i] = seqNr[t] - Len(history[t]) + i - 1

\* The packets injected, and the one the receive thread is about to inject.
Injected ==
  air \o (IF thread["rx"].pc = "inject" THEN <<thread["rx"].packet>> ELSE <<>>)

\* However often a packet is requested, it is retransmitted at most once, so
\* the repeated requests of a receiver (retries) do not multiply the traffic.
AnsweredOnce ==
  \A i, j \in 1..Len(Injected) :
    Injected[i].again /\ Injected[i] = Injected[j] => i = j

Answered(t, n) ==
  \E i \in 1..Len(Injected) : Injected[i] = [packet_type |-> t, seq |-> n, again |-> TRUE]

\* Of the requests that are remembered, and so will be ignored when they are
\* repeated, exactly those were answered that came after their packet got its
\* number: the others (to a sender that was restarted) keep a packet of the
\* history from ever being retransmitted.
SeenAnswered ==
  \A t \in PacketType : \A n \in seen[t] \cap ToSet(history[t]) :
    Answered(t, n) <=> n \notin early[t]

\* The destructor does not wait for the queue to be worked off: after it cleared
\* the flag, one more element is processed at most, the one a wait begun before
\* returns.
StopsSoon == late <= 1

\* While it is to run, the processing thread does not leave an element waiting,
\* however often packets are requested meanwhile, and it ends when the object is
\* destroyed, also when nothing is ever enqueued again (the destructor joins it).
WorkerProgress ==
  /\ \A k \in 0..MaxItems - 1 :
       (queue # <<>> /\ Len(gone.taken) = k) ~> (Len(gone.taken) > k \/ ~run)
  /\ ~run ~> (loop = "end")

\* WBStreamTx.h:227: m_n_injected_packets is the n of actually injected packets.
InjectedCounted ==
  (\A th \in Thread : thread[th].pc \in {"rest", "inject"}) => stats.injected = Len(air)
=============================================================================
