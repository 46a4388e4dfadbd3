----------------------------- MODULE WBStreamRx -----------------------------
(***************************************************************************)
(* One receiving stream with FEC disabled: src/wifibroadcast/src/           *)
(* WBStreamRx.{h,cpp} and the FECDisabledDecoder of SimpleStream.hpp.       *)
(*                                                                         *)
(* The receive thread of WBTxRx delivers packets and announces sessions.    *)
(* Without threading it also processes the packets; with threading it       *)
(* enqueues them for a thread of this object, and nothing but the queue is  *)
(* protected: the two threads interleave between the statements below.      *)
(* (Two of them touching the map of the decoder at the very same moment is  *)
(* undefined behaviour and not modelled.)                                   *)
(*                                                                         *)
(* A packet is a record of its session, type, index on the air (abs, of     *)
(* which the header carries the low bits) and FECDisabledHeader number.     *)
(***************************************************************************)
EXTENDS Integers, Sequences, FiniteSets, SequencesExt, FiniteSetsExt

CONSTANTS
  ThreadModes,                   \* values of enable_threading to explore
  packet_queue_size,
  enable_retransmission, RetransmissionType, \* the options, as the types they select
  retransmission_request_retries,
  MaxPerGap,                     \* 10 in the code: requests per gap
  IdxMod,                        \* 2^32 in the code: the indices' width
  FEC_DISABLED_MAX_SIZE_OF_MAP,  \* 100 in the code
  Stream,                        \* what a sender sends in a session, in order
  MaxArrivals, MaxSessions       \* bounds: packets per session, new sessions

ASSUME WBStreamRxAssumption ==
  /\ ThreadModes \subseteq BOOLEAN
  /\ packet_queue_size \in Nat \ {0}
  /\ enable_retransmission \in BOOLEAN
  /\ retransmission_request_retries \in Int
  /\ MaxPerGap \in Nat \ {0}
  /\ IdxMod \in Nat \ {0} /\ IdxMod % 2 = 0
  /\ FEC_DISABLED_MAX_SIZE_OF_MAP \in Nat \ 0..2
  /\ MaxArrivals \in Nat /\ MaxSessions \in Nat

PacketType == {p.packet_type : p \in ToSet(Stream)}
Index == {p.abs : p \in ToSet(Stream)}
IndexOf(t) == {p.abs : p \in {q \in ToSet(Stream) : q.packet_type = t}}

\* The indices of a type follow each other, and a session uses less than half of
\* their range: a signed difference orders no more.
ASSUME StreamAssumption ==
  /\ \A p \in ToSet(Stream) : p.abs \in Nat /\ p.number \in Nat
  /\ \A t \in PacketType : \A i, j \in IndexOf(t) :
       j - i < IdxMod \div 2 /\ i..j \subseteq IndexOf(t)

VARIABLES
  enable_threading,  \* constant over a behaviour
  session,           \* sessions so far
  queue,             \* m_packet_queue
  first, last,       \* m_first_packet_received_by_type, m_last_seq_num_by_type
  known,             \* m_known_sequence_numbers
  missing, asked,    \* m_n_missing_packets; requests sent, per type and abs index
  worker,            \* where the processing thread is
  resetting,         \* the receive thread is inside on_new_session
  processed,         \* auxiliary: the session's packets the decoder got, in order
  out,               \* auxiliary: what the decoder forwarded since the session began
  arrivals

vars == <<enable_threading, session, queue, first, last, known, missing, asked, worker,
          resetting, processed, out, arrivals>>

gapVars == <<first, last, missing, asked>>
decoderVars == <<known, processed, out>>
linkVars == <<enable_threading, session, arrivals>>

Idle == [pc |-> "idle"]
NothingAsked == [t \in PacketType |-> [i \in Index |-> 0]]

Init ==
  /\ enable_threading \in ThreadModes
  /\ session = 0 /\ arrivals = 0
  /\ queue = <<>>
  /\ first = [t \in PacketType |-> FALSE]
  /\ last = [t \in PacketType |-> 0]
  /\ known = {}
  /\ missing = 0 /\ asked = NothingAsked
  /\ worker = Idle /\ resetting = FALSE
  /\ processed = <<>> /\ out = <<>>

-----------------------------------------------------------------------------
(* Gap detection: check_gap_and_request                                      *)

\* stream_packet_idx of the header.
Idx(p) == p.abs % IdxMod

\* Mutant: the difference is not a signed one.
UnsignedDiff(cur, prev) == (cur - prev) % IdxMod

\* (int32_t)(current_seq_num - last_seq)
Diff(cur, prev) == ((cur - prev + (IdxMod \div 2)) % IdxMod) - (IdxMod \div 2)

\* Mutant: the newest missing packet is not asked for.
MissingCountShort(diff) == Max({0, Min({diff - 2, MaxPerGap})})

MissingCount(diff) == Max({0, Min({diff - 1, MaxPerGap})})

\* The requests for the packets between the last one, read as prev, and p.
\* The oldest ones are asked for.
GapRequests(p, prev) ==
  LET d == Diff(Idx(p), prev)
      n == IF p.packet_type \in RetransmissionType THEN MissingCount(d) ELSE 0
      wanted == {p.abs - d + i : i \in 1..n}
  IN /\ missing' = missing + n
     /\ asked' = [asked EXCEPT ![p.packet_type] = [i \in Index |->
          IF i \in wanted THEN @[i] + Max({1, retransmission_request_retries}) ELSE @[i]]]

FirstPacket(p) ==
  /\ first' = [first EXCEPT ![p.packet_type] = TRUE]
  /\ last' = [last EXCEPT ![p.packet_type] = Idx(p)]

\* Mutant: a late packet or a retransmission moves the last number back.
NewLastAlways(p, prev) == Idx(p)

\* A reordered packet or a retransmission (diff <= 0) changes nothing.
NewLast(p, prev) ==
  IF Diff(Idx(p), prev) > 0 THEN Idx(p) ELSE last[p.packet_type]

UpdateLast(p, prev) == last' = [last EXCEPT ![p.packet_type] = NewLast(p, prev)]

CheckGap(p) ==
  IF ~enable_retransmission THEN UNCHANGED gapVars
  ELSE IF ~first[p.packet_type] THEN FirstPacket(p) /\ UNCHANGED <<missing, asked>>
  ELSE /\ GapRequests(p, last[p.packet_type])
       /\ UpdateLast(p, last[p.packet_type])
       /\ UNCHANGED first

-----------------------------------------------------------------------------
(* The decoder: process_packet_seq_nr_and_payload.  Its branch for the first *)
(* packet ever does what the other branch does on an empty map.              *)

\* Mutant: one more element is forgotten.
HousekeptMore(m) ==
  IF Cardinality(m) >= FEC_DISABLED_MAX_SIZE_OF_MAP - 2 THEN m \ {Min(m)} ELSE m

\* The smallest number is erased, which may be the one just inserted.
Housekept(m) ==
  IF Cardinality(m) >= FEC_DISABLED_MAX_SIZE_OF_MAP - 1 THEN m \ {Min(m)} ELSE m

Decode(p) ==
  /\ known' = Housekept(known \cup {p.number})
  /\ out' = IF p.number \in known THEN out ELSE Append(out, <<p.session, p.number>>)
  /\ processed' = IF p.session = session THEN Append(processed, p) ELSE processed

-----------------------------------------------------------------------------
(* The receive thread of WBTxRx                                              *)

\* Any packet of the running session, in any order, any number of times.
Arrive(p) ==
  /\ ~resetting /\ arrivals < MaxArrivals
  /\ arrivals' = arrivals + 1
  /\ UNCHANGED <<enable_threading, session, resetting>>

\* Mutant: the capacity test is off by one.
RoomLate == Len(queue) <= packet_queue_size

Room == Len(queue) < packet_queue_size

\* on_new_packet; a full queue drops the packet.
EnqueuePacket(p) ==
  /\ enable_threading /\ Arrive(p)
  /\ queue' = IF Room THEN Append(queue, p) ELSE queue
  /\ UNCHANGED <<gapVars, decoderVars, worker>>

ProcessPacket(p) ==
  /\ ~enable_threading /\ Arrive(p)
  /\ CheckGap(p)
  /\ Decode(p)
  /\ UNCHANGED <<queue, worker>>

\* Mutant: the new session keeps the known numbers.
ResetMapForgotten == known

\* reset_packets_map
ResetMap == {}

\* on_new_session, first part: the decoder.
ResetDecoder ==
  /\ ~resetting /\ session < MaxSessions
  /\ session' = session + 1
  /\ known' = ResetMap
  /\ processed' = <<>> /\ out' = <<>> /\ arrivals' = 0
  /\ resetting' = TRUE
  /\ UNCHANGED <<enable_threading, queue, gapVars, worker>>

\* Second part: reset_stream_stats and the gap detection.
ResetGaps ==
  /\ resetting
  /\ resetting' = FALSE
  /\ first' = [t \in PacketType |-> FALSE]
  /\ last' = [t \in PacketType |-> 0]
  /\ missing' = 0 /\ asked' = NothingAsked
  /\ UNCHANGED <<linkVars, queue, decoderVars, worker>>

-----------------------------------------------------------------------------
(* The processing thread: loop_process_data                                  *)

Dequeue ==
  /\ worker.pc = "idle" /\ queue # <<>>
  /\ worker' = [pc |-> "gap", packet |-> Head(queue)]
  /\ queue' = Tail(queue)
  /\ UNCHANGED <<linkVars, gapVars, decoderVars, resetting>>

WorkerCheckGap ==
  /\ worker.pc = "gap"
  /\ LET p == worker.packet
     IN IF enable_retransmission /\ first[p.packet_type]
        THEN /\ GapRequests(p, last[p.packet_type])
             /\ worker' = [pc |-> "update", packet |-> p, prev |-> last[p.packet_type]]
             /\ UNCHANGED <<first, last>>
        ELSE /\ CheckGap(p)
             /\ worker' = [pc |-> "decode", packet |-> p]
  /\ UNCHANGED <<linkVars, queue, decoderVars, resetting>>

WorkerUpdateLast ==
  /\ worker.pc = "update"
  /\ UpdateLast(worker.packet, worker.prev)
  /\ worker' = [pc |-> "decode", packet |-> worker.packet]
  /\ UNCHANGED <<linkVars, queue, first, missing, asked, decoderVars, resetting>>

WorkerDecode ==
  /\ worker.pc = "decode"
  /\ Decode(worker.packet)
  /\ worker' = Idle
  /\ UNCHANGED <<linkVars, queue, gapVars, resetting>>

Worker == Dequeue \/ WorkerCheckGap \/ WorkerUpdateLast \/ WorkerDecode

Packets == {[session |-> session, packet_type |-> p.packet_type, abs |-> p.abs,
             number |-> p.number] : p \in ToSet(Stream)}

Next ==
  \/ \E p \in Packets : EnqueuePacket(p) \/ ProcessPacket(p)
  \/ ResetDecoder \/ ResetGaps
  \/ Worker

Spec == Init /\ [][Next]_vars

-----------------------------------------------------------------------------
(* Correctness                                                               *)

\* With a thread of its own the stream is only right in the first session:
\* what the queue holds survives a reset (EverySessionForwarded).
Undisturbed == ~resetting /\ (enable_threading => session = 0)

\* Type invariant; the map stays below its size, the queue within its own.
TypeOK ==
  /\ Len(queue) <= packet_queue_size
  /\ first \in [PacketType -> BOOLEAN] /\ last \in [PacketType -> 0..IdxMod - 1]
  /\ Cardinality(known) < FEC_DISABLED_MAX_SIZE_OF_MAP - 1
  /\ missing \in Nat /\ asked \in [PacketType -> [Index -> Nat]]
  /\ worker.pc \in {"idle", "gap", "update", "decode"}

\* The packets whose gap check is done, in order.
Checked == processed \o (IF worker.pc = "decode" THEN <<worker.packet>> ELSE <<>>)

\* The positions of type t in c, its indices there, and the first of them.
OfType(c, t) == {i \in 1..Len(c) : c[i].packet_type = t}
Indices(c, t) == {c[i].abs : i \in OfType(c, t)}
FirstIndex(c, t) == c[Min(OfType(c, t))].abs

\* Each missing packet is asked for exactly as often as configured, and the
\* counter counts the missing packets, over the wrap of the index too.
AskedOnce ==
  Undisturbed =>
    /\ \A t \in PacketType : \A i \in Index :
         asked[t][i] \in {0, Max({1, retransmission_request_retries})}
    /\ missing = Cardinality({x \in PacketType \X Index : asked[x[1]][x[2]] > 0})

\* No packet is asked for that was received before.
AsksForMissing ==
  [][Undisturbed => \A t \in PacketType : \A i \in Index :
       asked'[t][i] > asked[t][i] => i \notin Indices(Checked, t)]_vars

\* Between the first received packet of a type and the newest one, every packet
\* was received, or asked for, or comes after MaxPerGap that were asked for.
GapsCovered ==
  Undisturbed /\ enable_retransmission =>
    \A t \in PacketType \cap RetransmissionType : \A i \in Index :
      LET c == Indices(Checked, t)
      IN c # {} /\ FirstIndex(Checked, t) < i /\ i < Max(c) =>
        \/ i \in c \/ asked[t][i] > 0
        \/ \E k \in Index : \A j \in k..(k + MaxPerGap - 1) : j < i /\ j \in Index /\ asked[t][j] > 0

\* SimpleStream.hpp:24: a received packet is forwarded, in every session.
ReceivedForwarded == Undisturbed => {<<session, p.number>> : p \in ToSet(processed)} \subseteq ToSet(out)

\* A number is forwarded again only when as many higher ones as the map keeps
\* were forwarded before.
DuplicatesOnlyWhenLate ==
  Undisturbed =>
    \A i, j \in 1..Len(out) : i < j /\ out[i] = out[j] =>
      Cardinality({n \in ToSet(SubSeq(out, 1, j)) : n[2] > out[j][2]})
        >= FEC_DISABLED_MAX_SIZE_OF_MAP - 2

\* SimpleStream.hpp:24-25, without the restriction to undisturbed sessions.
EverySessionForwarded == ~resetting => {<<session, p.number>> : p \in ToSet(processed)} \subseteq ToSet(out)
=============================================================================
