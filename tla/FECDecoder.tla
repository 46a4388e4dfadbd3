----------------------------- MODULE FECDecoder -----------------------------
(***************************************************************************)
(* The FEC receive queue: src/wifibroadcast/src/fec/FECDecoder.{h,cpp}.     *)
(*                                                                         *)
(* The decoder is sequential: one call of process_valid_packet is one step. *)
(* Its environment is the radio link: any fragment of any block of the      *)
(* stream may come in at any time, any number of times, or never, which     *)
(* covers loss, duplicates (several rx cards) and reordering.               *)
(* A loop of the code that pops or pushes blocks is written as the          *)
(* sequence of blocks it pops or pushes, in order.                          *)
(***************************************************************************)
EXTENDS RxBlock

CONSTANTS
  RX_QUEUE_MAX_SIZE,           \* depth of the queue, 1..19 (constructor asserts)
  maxNFragmentsPerBlock,       \* fragments an RxBlock has room for
  m_forward_gapped_fragments,  \* what a flush does with gapped blocks
  Block,                       \* block indices of the stream
  NPrimary,                    \* fragments with data, per block (FEC k)
  NSecondary,                  \* correction fragments, per block
  MaxResets                    \* bound: how often a new session resets the queue

ASSUME FECDecoderAssumption ==
  /\ RX_QUEUE_MAX_SIZE \in 1..19
  /\ maxNFragmentsPerBlock \in Nat \ {0}
  /\ m_forward_gapped_fragments \in BOOLEAN
  /\ Block \subseteq Nat
  /\ NPrimary \in [Block -> Nat \ {0}]
  /\ NSecondary \in [Block -> Nat]
  /\ MaxResets \in Nat

VARIABLES
  rx_queue,          \* the queued blocks, oldest first
  last_known_block,  \* NoBlock, or the newest index that was ever queued
  stats,             \* the block and fragment counters of FECRxStats
  out,               \* <<block, fragment>> handed to the data callback, in order
  done,              \* the calls of m_block_done_cb, in order
  aborted,           \* an assert of the code has failed
  resets,            \* sessions so far
  statsAtReset       \* auxiliary: stats when this session started

vars == <<rx_queue, last_known_block, stats, out, done, aborted, resets, statsAtReset>>

NoBlock == -1

Header == [block_idx : Block, fragment_idx : Nat, n_primary_fragments : Nat \ {0}]

\* The header of fragment f of block b as the encoder writes it.
StreamHeader(b, f) ==
  [block_idx |-> b, fragment_idx |-> f, n_primary_fragments |-> NPrimary[b]]

ZeroStats == [total |-> 0, lost |-> 0, recovered |-> 0, fragments_recovered |-> 0]

Init ==
  /\ rx_queue = <<>>
  /\ last_known_block = NoBlock
  /\ stats = ZeroStats
  /\ out = <<>>
  /\ done = <<>>
  /\ aborted = FALSE
  /\ resets = 0
  /\ statsAtReset = ZeroStats

-----------------------------------------------------------------------------
(* rxRingFindCreateBlockByIdx and rxRingCreateNewSafe *)

InQueue(b) == \E i \in 1..Len(rx_queue) : rx_queue[i].blockIdx = b

\* Neither in the queue nor newer than everything queued before.
AlreadyProcessed(b) ==
  ~InQueue(b) /\ last_known_block # NoBlock /\ b <= last_known_block

NeededBlocks(b) ==
  IF InQueue(b) THEN 0
  ELSE IF last_known_block = NoBlock THEN 1 ELSE b - last_known_block

\* No point in creating more blocks than the queue holds.
NewBlocks(b) ==
  IF NeededBlocks(b) > RX_QUEUE_MAX_SIZE THEN RX_QUEUE_MAX_SIZE ELSE NeededBlocks(b)

\* Mutant: the test for a gap longer than the queue is missing.
SkippedUnguarded(b) == NeededBlocks(b) - RX_QUEUE_MAX_SIZE

\* Blocks that never get a place in the queue: counted as lost at once.
Skipped(b) == NeededBlocks(b) - NewBlocks(b)

Pushed(b) == rx_queue \o [i \in 1..NewBlocks(b) |-> NewRxBlock(b - NewBlocks(b) + i)]

\* Mutant: the capacity test is off by one.
OverflowLate(b) ==
  IF Len(Pushed(b)) > RX_QUEUE_MAX_SIZE + 1 THEN Len(Pushed(b)) - RX_QUEUE_MAX_SIZE - 1 ELSE 0

\* How many of the oldest blocks the pushes evict.
Overflow(b) ==
  IF Len(Pushed(b)) > RX_QUEUE_MAX_SIZE THEN Len(Pushed(b)) - RX_QUEUE_MAX_SIZE ELSE 0

Evicted(b) == SubSeq(rx_queue, 1, Overflow(b))

\* The queue in which the fragment of block b is then stored.
QueueFor(b) == SubSeq(Pushed(b), Overflow(b) + 1, Len(Pushed(b)))

LastKnown(b) == IF InQueue(b) THEN last_known_block ELSE b

FindAsserts(b) == InQueue(b) \/ Last(QueueFor(b)).blockIdx = b

-----------------------------------------------------------------------------
(* forwardMissingPrimaryFragmentsIfAvailable and rxQueuePopFront, applied to *)
(* each of a sequence of blocks in turn                                      *)

ForwardEach(blocks, discard) == [i \in 1..Len(blocks) |-> Forwarded(blocks[i], discard)]

EmitEach(blocks, discard) ==
  FlattenSeq([i \in 1..Len(blocks) |-> Emitted(blocks[i], discard)])

PullEachAsserts(blocks, discard) ==
  \A i \in 1..Len(blocks) : PullAsserts(blocks[i], discard)

\* What m_block_done_cb is told about a popped block.
BlockDone(r) == [blockIdx |-> r.blockIdx, total |-> r.k, forwarded |-> r.fwd]

\* Mutant: every popped block counts as lost.
LostAll(popped) == Len(popped)

LostAmong(popped) == Cardinality({i \in 1..Len(popped) : ~AllForwarded(popped[i])})

-----------------------------------------------------------------------------
(* process_valid_packet, process_with_rx_queue *)

\* The position of block b in the queue its fragment is stored in.
Position(b) == CHOOSE i \in 1..Len(QueueFor(b)) : QueueFor(b)[i].blockIdx = b

\* Mutant: a fragment the block already has is processed again.
IsNewFragmentUnchecked(h) == h.fragment_idx < maxNFragmentsPerBlock /\ ~AlreadyProcessed(h.block_idx)

\* The packet passes every early return: it adds a fragment to a block.
IsNewFragment(h) ==
  /\ h.fragment_idx < maxNFragmentsPerBlock
  /\ ~AlreadyProcessed(h.block_idx)
  /\ h.fragment_idx \notin QueueFor(h.block_idx)[Position(h.block_idx)].map

\* The block of the packet, with the packet's fragment.
Filled(h) == AddFragment(QueueFor(h.block_idx)[Position(h.block_idx)], h)

\* What every accepted packet does: the evictions its block caused, then the
\* blocks popped (after forwarding) and the fragments emitted by the handler.
Commit(h, queue, popped, emitted, recovered, asserts) ==
  LET b == h.block_idx
      gone == ForwardEach(Evicted(b), TRUE) \o popped
  IN /\ rx_queue' = queue
     /\ last_known_block' = LastKnown(b)
     /\ out' = out \o EmitEach(Evicted(b), TRUE) \o emitted
     /\ done' = done \o [i \in 1..Len(gone) |-> BlockDone(gone[i])]
     /\ stats' = [total |-> stats.total + NewBlocks(b),
                  lost |-> stats.lost + Skipped(b) + LostAmong(gone),
                  recovered |-> stats.recovered + (IF recovered > 0 THEN 1 ELSE 0),
                  fragments_recovered |-> stats.fragments_recovered + recovered]
     /\ aborted' = ~(/\ PullEachAsserts(Evicted(b), TRUE)
                     /\ FindAsserts(b)
                     /\ AddFragmentAsserts(QueueFor(b)[Position(b)], h)
                     /\ asserts)
     /\ UNCHANGED <<resets, statsAtReset>>

\* The fragment index is out of range, the block is already processed or the
\* fragment already there: the packet has no effect.
IgnorePacket(h) == ~IsNewFragment(h) /\ UNCHANGED vars

\* The oldest block: its data is forwarded up to the first gap ...
FrontForwarded(h) == Forwarded(Filled(h), FALSE)

\* ... and the block stays, incomplete;
FrontPending(h) ==
  /\ IsNewFragment(h) /\ Position(h.block_idx) = 1
  /\ ~AllForwarded(FrontForwarded(h)) /\ ~CanBeRecovered(FrontForwarded(h))
  /\ Commit(h, [QueueFor(h.block_idx) EXCEPT ![1] = FrontForwarded(h)], <<>>,
            Emitted(Filled(h), FALSE), 0, PullAsserts(Filled(h), FALSE))

\* ... or is complete and removed;
FrontDone(h) ==
  /\ IsNewFragment(h) /\ Position(h.block_idx) = 1
  /\ AllForwarded(FrontForwarded(h))
  /\ Commit(h, Tail(QueueFor(h.block_idx)), <<FrontForwarded(h)>>,
            Emitted(Filled(h), FALSE), 0, PullAsserts(Filled(h), FALSE))

\* ... or is recovered by FEC, forwarded to its end and removed.
FrontRecover(h) ==
  LET fixed == Reconstructed(FrontForwarded(h))
  IN /\ IsNewFragment(h) /\ Position(h.block_idx) = 1
     /\ ~AllForwarded(FrontForwarded(h)) /\ CanBeRecovered(FrontForwarded(h))
     /\ Commit(h, Tail(QueueFor(h.block_idx)), <<Forwarded(fixed, FALSE)>>,
               Emitted(Filled(h), FALSE) \o Emitted(fixed, FALSE),
               Cardinality(MissingPrimary(FrontForwarded(h))),
               /\ PullAsserts(Filled(h), FALSE)
               /\ ReconstructAsserts(FrontForwarded(h))
               /\ PullAsserts(fixed, FALSE)
               /\ AllForwarded(Forwarded(fixed, FALSE)))

\* A newer block, not complete yet: the fragment is kept.
StoreFragment(h) ==
  /\ IsNewFragment(h) /\ Position(h.block_idx) > 1
  /\ ~AllAvailable(Filled(h)) /\ ~CanBeRecovered(Filled(h))
  /\ Commit(h, [QueueFor(h.block_idx) EXCEPT ![Position(h.block_idx)] = Filled(h)],
            <<>>, <<>>, 0, TRUE)

\* A newer block became complete, with or without FEC (fixed): every block
\* before it is forwarded as far as configured and removed, then the block is
\* forwarded and removed.
FlushUpTo(h, fixed, recovered, asserts) ==
  LET p == Position(h.block_idx)
      older == SubSeq(QueueFor(h.block_idx), 1, p - 1)
      discard == m_forward_gapped_fragments
  IN Commit(h, SubSeq(QueueFor(h.block_idx), p + 1, Len(QueueFor(h.block_idx))),
            Append(ForwardEach(older, discard), Forwarded(fixed, FALSE)),
            EmitEach(older, discard) \o Emitted(fixed, FALSE),
            recovered,
            /\ PullEachAsserts(older, discard)
            /\ asserts
            /\ PullAsserts(fixed, FALSE)
            /\ AllForwarded(Forwarded(fixed, FALSE)))

FlushComplete(h) ==
  /\ IsNewFragment(h) /\ Position(h.block_idx) > 1
  /\ AllAvailable(Filled(h))
  /\ FlushUpTo(h, Filled(h), 0, TRUE)

FlushRecover(h) ==
  /\ IsNewFragment(h) /\ Position(h.block_idx) > 1
  /\ ~AllAvailable(Filled(h)) /\ CanBeRecovered(Filled(h))
  /\ FlushUpTo(h, Reconstructed(Filled(h)), Cardinality(MissingPrimary(Filled(h))),
               ReconstructAsserts(Filled(h)))

ProcessPacket(h) ==
  /\ ~aborted
  /\ \/ IgnorePacket(h)
     \/ FrontPending(h)
     \/ FrontDone(h)
     \/ FrontRecover(h)
     \/ StoreFragment(h)
     \/ FlushComplete(h)
     \/ FlushRecover(h)

\* WBStreamRx::on_new_session: the queue starts over, nothing is forwarded and
\* the counters go on.  The histories describe the session.
ResetRxQueue ==
  /\ ~aborted /\ resets < MaxResets
  /\ rx_queue' = <<>>
  /\ last_known_block' = NoBlock
  /\ out' = <<>> /\ done' = <<>>
  /\ resets' = resets + 1 /\ statsAtReset' = stats
  /\ UNCHANGED <<stats, aborted>>

Next ==
  \/ \E b \in Block : \E f \in 0..(NPrimary[b] + NSecondary[b] - 1) :
       ProcessPacket(StreamHeader(b, f))
  \/ ResetRxQueue

Spec == Init /\ [][Next]_vars

-----------------------------------------------------------------------------
(* Correctness *)

\* Type invariant of the decoder state: indices, counters and block records
\* stay in range, so no counter of FECRxStats ever wraps below zero.
TypeOK ==
  /\ rx_queue \in Seq(RxBlockType)
  /\ last_known_block \in Block \cup {NoBlock}
  /\ stats \in [{"total", "lost", "recovered", "fragments_recovered"} -> Nat]
  /\ aborted \in BOOLEAN
  /\ resets \in 0..MaxResets

\* No sequence of packets makes an assert of RxBlock, fecDecode or FECDecoder
\* fail: asserts are compiled in, so a failing one takes the receiver down.
NoAssertFails == ~aborted

\* The queue holds consecutive blocks, the newest is last_known_block, and it
\* never exceeds its configured depth (FECDecoder.cpp:156-170: "the rx ring
\* mustn't have any gaps between the block indices").
QueueShape ==
  /\ Len(rx_queue) <= RX_QUEUE_MAX_SIZE
  /\ \A i \in 1..Len(rx_queue) :
       rx_queue[i].blockIdx = last_known_block - Len(rx_queue) + i

\* A block that waits in the queue cannot be decoded yet: as soon as any k of
\* its fragments are there it leaves the queue, so fecDecode is never called
\* too late (FEC.h:106-108) and no decodable block is ever given up.
QueuedIncomplete ==
  \A i \in 1..Len(rx_queue) : LET r == rx_queue[i] IN
    /\ r.k = Unknown => r.map = {}
    /\ r.k # Unknown => r.nP + r.nS < r.k

\* The counters of a queued block agree with its fragment map, and the prefix
\* counted as forwarded was really available (pullAvailablePrimaryFragments
\* uses both counters as indices).
CountersMatchMap ==
  \A i \in 1..Len(rx_queue) : LET r == rx_queue[i] IN
    r.k # Unknown =>
      /\ r.nP = Cardinality(r.map \cap 0..(r.k - 1))
      /\ r.nS = Cardinality(Secondary(r))
      /\ r.fwd <= r.nP
      /\ 0..(r.fwd - 1) \subseteq r.map

\* The fragments of block b that the data callback got.
Delivered(b) == {i \in 1..Len(out) : out[i][1] = b}

\* m_block_done_cb tells the truth: the number it reports is the number of
\* fragments the data callback got of that block, before and for ever after.
BlockDoneTruthful ==
  \A i \in 1..Len(done) : Cardinality(Delivered(done[i].blockIdx)) = done[i].forwarded

Complete(d) == d.total # Unknown /\ d.forwarded = d.total

\* The first block of the session.
FirstBlock == IF done # <<>> THEN done[1].blockIdx ELSE rx_queue[1].blockIdx

\* FECRxStats accounts for every block between the first and the newest one
\* of a session exactly once: removed complete, counted as lost, or queued
\* (FECDecoder.h:104-105), whether it overflowed, was flushed or never fitted.
BlocksAccountedFor ==
  last_known_block # NoBlock =>
    last_known_block - FirstBlock + 1 =
      Cardinality({i \in 1..Len(done) : Complete(done[i])})
        + (stats.lost - statsAtReset.lost) + Len(rx_queue)

\* In order, no duplicates, only data of the stream, and nothing of a block
\* after its done callback.
Promise ==
  INSTANCE OrderedDelivery WITH
    delivered <- out, closed <- [i \in 1..Len(done) |-> done[i].blockIdx]

DeliversInOrder == Promise!ODSpec

\* RxBlock.h:60-63 and FECDecoder.h:76-80: when a block is given up with
\* discardMissingPackets, "gaps are ignored and fragments are forwarded": every
\* available primary fragment of a block that overflows the queue comes out.
EvictionForwardsAvailable ==
  [][\A r \in ToSet(rx_queue) :
       Len(rx_queue') = RX_QUEUE_MAX_SIZE /\ r.blockIdx < rx_queue'[1].blockIdx
         => Cardinality({i \in 1..Len(out') : out'[i][1] = r.blockIdx}) = r.nP]_vars
=============================================================================
