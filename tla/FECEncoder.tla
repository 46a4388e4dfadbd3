----------------------------- MODULE FECEncoder -----------------------------
(***************************************************************************)
(* What a sender makes of a frame: the split into FEC blocks                *)
(* (HelperSources/BlockSizeHelper.hpp), the number of secondary fragments   *)
(* (fec/FEC.cpp) and the fragments of each block (fec/FECEncoder.{h,cpp}),  *)
(* as WBStreamTx and WBVideoStreamTx use them.                              *)
(*                                                                         *)
(* Data is the set of its positions in the frame: bytes when the encoder    *)
(* fragments a frame itself, whole fragments when the user did it before.   *)
(* A secondary fragment carries no position.  Galois-field arithmetic and   *)
(* time statistics are left out; one thread runs all of this.               *)
(***************************************************************************)
EXTENDS Integers, Sequences, FiniteSets, SequencesExt, FiniteSetsExt

CONSTANTS
  FEC_PACKET_MAX_PAYLOAD_SIZE,  \* 1441 in the code
  MTU,                          \* 1440: the payload WBStreamTx fills
  MAX_PAYLOAD_BEFORE_FEC,       \* 1449: with the header of a fragment
  MAX_N_P_FRAGMENTS_PER_BLOCK, MAX_N_S_FRAGMENTS_PER_BLOCK,  \* 128 each
  IdxMod,                       \* 2^32: the width of block_idx
  HdrMod,                       \* 2^8: of n_primary_fragments, and of fragment_idx
  FragmentCounts, FrameSizes,   \* bounds: fragments of a frame, bytes of a frame
  MaxBlockSizes, Overheads      \* bounds: max_block_size, fec_overhead_perc

\* m_block_buffer has a place for so many fragments.
MAX_TOTAL_FRAGMENTS_PER_BLOCK == MAX_N_P_FRAGMENTS_PER_BLOCK + MAX_N_S_FRAGMENTS_PER_BLOCK

ASSUME FECEncoderAssumption ==
  /\ FEC_PACKET_MAX_PAYLOAD_SIZE \in Nat /\ MTU \in 1..FEC_PACKET_MAX_PAYLOAD_SIZE
  /\ MAX_PAYLOAD_BEFORE_FEC \in Nat /\ FEC_PACKET_MAX_PAYLOAD_SIZE < MAX_PAYLOAD_BEFORE_FEC
  /\ MAX_N_P_FRAGMENTS_PER_BLOCK \in Nat \ {0} /\ MAX_N_S_FRAGMENTS_PER_BLOCK \in Nat
  /\ IdxMod \in Nat \ {0, 1}
  \* The index of the last place of m_block_buffer fits a header.
  /\ HdrMod \in Nat /\ MAX_TOTAL_FRAGMENTS_PER_BLOCK <= HdrMod
  /\ FragmentCounts \subseteq Nat \ {0} /\ FrameSizes \subseteq Nat \ {0}  \* no empty frame
  /\ MaxBlockSizes \subseteq Nat \ {0} /\ Overheads \subseteq Nat
  \* Up to 2^24 fragments the ceiling of the float quotient is exact, and up to
  \* 2^22 the rounded product; such a frame has fewer than 2^32 blocks.
  /\ \A n \in FragmentCounts : n <= 2^24 /\ \A perc \in Overheads : n * perc <= 2^22
  /\ \A size \in FrameSizes, perc \in Overheads : size * perc <= MTU * 2^22
  /\ \A n \in FragmentCounts, m \in MaxBlockSizes : n <= m * IdxMod

VARIABLES
  m_curr_block_idx,
  sent,      \* the fragments sent for the last frame, in order
  frame,     \* auxiliary: that frame, its data and the block size asked for
  failed     \* auxiliary: the call that ended the program, if there was one

vars == <<m_curr_block_idx, sent, frame, failed>>

NoFrame == [data |-> {}, max_block_size |-> MAX_N_P_FRAGMENTS_PER_BLOCK]

Init ==
  /\ m_curr_block_idx = 0
  /\ sent = <<>>
  /\ frame = NoFrame
  /\ failed = {}

-----------------------------------------------------------------------------
(* Block sizes                                                               *)

\* Mutant: the remainder is dropped.
DivFloor(a, b) == a \div b

\* blocksize::div_ceil
DivCeil(a, b) == IF a % b = 0 THEN a \div b ELSE (a \div b) + 1

\* Mutant: one block more than needed when the sizes divide.
NBlocksExtra(n, max_block_size) == (n \div max_block_size) + 1

\* calc_min_n_of_blocks
NBlocks(n, max_block_size) == DivCeil(n, max_block_size)

\* Mutant: the remainder of the division is in no block.
BlockSizesTruncated(n, max_block_size) ==
  LET m == NBlocks(n, max_block_size) IN [i \in 1..m |-> n \div m]

\* calculate_best_fit_block_sizes: fragments are dealt to the blocks in turn.
BlockSizes(n, max_block_size) ==
  IF n <= max_block_size THEN <<n>>
  ELSE LET m == NBlocks(n, max_block_size)
       IN [i \in 1..m |-> Cardinality({f \in 0..n - 1 : f % m = i - 1})]

\* The sum of the first k numbers of s.
SumFirst(s, k) ==
  LET sum[j \in 0..Len(s)] == IF j = 0 THEN 0 ELSE sum[j - 1] + s[j] IN sum[k]

\* The number of fragments before the i-th block (n_used_fragments).
Before(sizes, i) == SumFirst(sizes, i - 1)

\* calculate_n_secondary_fragments: rounded, but at least one if any.
NSecondary(n_primary, perc) ==
  IF perc = 0 THEN 0
  ELSE IF n_primary * perc <= 100 THEN 1 ELSE (2 * n_primary * perc + 100) \div 200

\* What the next of left fragments takes of the remaining bytes.
Share(remaining, left) == Min({remaining, DivCeil(remaining, left)})

\* What has been consumed of size bytes after that fragment.
Consume(consumed, size, left) == consumed + Share(size - consumed, left)

\* The data of each fragment when a frame is distributed into n of them.
Distributed(size, n) ==
  LET consumed[i \in 0..n] ==
        IF i = 0 THEN 0 ELSE Consume(consumed[i - 1], size, n - i + 1)
      last == Min({i \in 0..n : consumed[i] = size \/ i = n})
  IN [i \in 1..last |-> (consumed[i - 1] + 1)..consumed[i]]

-----------------------------------------------------------------------------
(* The encoder.  A block is the data of its primary fragments, the number    *)
(* its header gives for them, and how many secondary fragments it gets.      *)

\* Mutant: a block without secondary fragments does not count.
StepWithFEC(b) == IF b.n_secondary = 0 THEN 0 ELSE 1

Step(b) == 1

\* m_curr_block_idx at the i-th block.
BlockIdx(blocks, i) ==
  (m_curr_block_idx + SumFirst([j \in 1..Len(blocks) |-> Step(blocks[j])], i - 1)) % IdxMod

\* The header has a byte for it.
Header(n_primary) == n_primary % HdrMod

\* create_forward_save_fragment for the data, then create_fec_packets.
EncodeBlock(b, idx) ==
  [i \in 1..Len(b.primary) + b.n_secondary |->
     [block_idx |-> idx, fragment_idx |-> i - 1,
      n_primary_fragments |-> Header(b.n_primary),
      data |-> IF i <= Len(b.primary) THEN b.primary[i] ELSE {}]]

\* Each action is a call of a stream, with the arguments it was given.
Call(op, amount, unit, perc) == [op |-> op, amount |-> amount, unit |-> unit, perc |-> perc]

\* The call sends all of its blocks.
Send(blocks, data, max_block_size) ==
  /\ failed = {} /\ UNCHANGED failed
  /\ frame' = [data |-> data, max_block_size |-> max_block_size]
  /\ sent' = FlattenSeq([i \in 1..Len(blocks) |-> EncodeBlock(blocks[i], BlockIdx(blocks, i))])
  /\ m_curr_block_idx' = BlockIdx(blocks, Len(blocks) + 1)

\* An assert fails in the call, or it writes behind m_block_buffer, which is
\* undefined: the program is over, and what it had sent is not followed further.
Fail(call) ==
  /\ failed = {} /\ failed' = {call}
  /\ m_curr_block_idx' = 0 /\ sent' = <<>> /\ frame' = NoFrame

\* The asserts of encode_block.
BlockFits(b) ==
  /\ b.n_primary <= MAX_N_P_FRAGMENTS_PER_BLOCK
  /\ b.n_secondary <= MAX_N_S_FRAGMENTS_PER_BLOCK

\* WBStreamTx::process_enqueued_block: a frame of n fragments, split if needed.
\* The first block is the largest: when one is too large, nothing was sent yet.
ProcessEnqueuedBlock(n, max_block_size, perc) ==
  LET sizes == BlockSizes(n, max_block_size)
      blocks == [i \in 1..Len(sizes) |->
        [primary |-> [f \in 1..sizes[i] |-> {Before(sizes, i) + f}],
         n_primary |-> sizes[i], n_secondary |-> NSecondary(sizes[i], perc)]]
      fits == \A i \in 1..Len(blocks) : BlockFits(blocks[i])
  IN \/ fits /\ Send(blocks, 1..n, max_block_size)
     \/ ~fits /\ Fail(Call("block", n, max_block_size, perc))

\* fragment_and_encode has its own asserts, before and after the loop; fec_encode
\* limits both kinds of fragments, but only if there are secondary ones.
FragmentsFit(b, size) ==
  /\ size <= FEC_PACKET_MAX_PAYLOAD_SIZE * b.n_primary
  /\ b.n_primary + b.n_secondary <= MAX_TOTAL_FRAGMENTS_PER_BLOCK
  /\ UNION Range(b.primary) = 1..size
  /\ b.n_secondary # 0 => BlockFits(b)

\* fragment_and_encode; no limit is given for the block but its buffer.
FragmentAndEncode(call, size, n_primary, n_secondary) ==
  LET b == [primary |-> Distributed(size, n_primary), n_primary |-> n_primary,
            n_secondary |-> n_secondary]
  IN \/ FragmentsFit(b, size) /\ Send(<<b>>, 1..size, MAX_TOTAL_FRAGMENTS_PER_BLOCK)
     \/ ~FragmentsFit(b, size) /\ Fail(call)

\* WBStreamTx::dirty_process_enqueued_frame
DirtyProcessEnqueuedFrame(size, perc) ==
  LET n == DivCeil(size, MTU)
  IN FragmentAndEncode(Call("frame", size, MTU, perc), size, n, NSecondary(n, perc))

\* WBVideoStreamTx::process_enqueued_frame
ProcessEnqueuedFrame(size, perc) ==
  LET n == DivCeil(size, FEC_PACKET_MAX_PAYLOAD_SIZE)
  IN FragmentAndEncode(Call("frame", size, FEC_PACKET_MAX_PAYLOAD_SIZE, perc),
                       size, n, NSecondary(n, perc))

\* WBVideoStreamTx::send_video_config, one fragment; set_config_data takes a
\* config of any size, and send_video_config asserts it.
SendVideoConfig(size) ==
  LET call == Call("config", size, FEC_PACKET_MAX_PAYLOAD_SIZE, 0)
      asserted == size # 0 /\ size < MAX_PAYLOAD_BEFORE_FEC
  IN \/ asserted /\ FragmentAndEncode(call, size, 1, 0)
     \/ ~asserted /\ Fail(call)

Next ==
  \/ \E n \in FragmentCounts, m \in MaxBlockSizes, perc \in Overheads :
       ProcessEnqueuedBlock(n, m, perc)
  \/ \E size \in FrameSizes, perc \in Overheads :
       DirtyProcessEnqueuedFrame(size, perc) \/ ProcessEnqueuedFrame(size, perc)
  \/ \E size \in FrameSizes \cup {0} : SendVideoConfig(size)

Spec == Init /\ [][Next]_vars

-----------------------------------------------------------------------------
(* Correctness                                                               *)

\* The positions in sent of a block's fragments, and of its primary ones.
IdxSent == {sent[i].block_idx : i \in 1..Len(sent)}
OfBlock(b) == {i \in 1..Len(sent) : sent[i].block_idx = b}
Primary(b) == {i \in OfBlock(b) : sent[i].data # {}}
PrimaryCounts == {Cardinality(Primary(b)) : b \in IdxSent}

\* What a caller would have to know: a block of more than 128 fragments, a frame
\* of more than 128 payloads, a config of more than one, or so many secondary
\* fragments for a block of 128 that they do not fit, beyond 100 %.
BeyondLimits(c) ==
  \/ c.op = "block" /\ c.amount > MAX_N_P_FRAGMENTS_PER_BLOCK
                    /\ c.unit > MAX_N_P_FRAGMENTS_PER_BLOCK
  \/ c.op = "frame" /\ c.amount > c.unit * MAX_N_P_FRAGMENTS_PER_BLOCK
  \/ c.op = "config" /\ c.amount \notin 1..c.unit
  \/ MAX_N_P_FRAGMENTS_PER_BLOCK * c.perc > 100 * MAX_N_S_FRAGMENTS_PER_BLOCK

\* No assert of the encoder fails, and nothing is written behind its buffer, in a
\* call within these limits, whatever was sent before.
EncoderAsserts == \A c \in failed : BeyondLimits(c)

\* WBVideoStreamTx.cpp:114 asserts what a config may be, for FECEncoder.cpp:37-38:
\* a config that it admits is sent.  It is not.
ConfigFits == \A c \in failed : c.op = "config" => c.amount \notin 1..MAX_PAYLOAD_BEFORE_FEC - 1

\* The primary fragments are the frame, in order, cut into payloads that fit.
FrameCarried ==
  /\ UNION {sent[i].data : i \in 1..Len(sent)} = frame.data
  /\ \A i \in 1..Len(sent) :
       /\ Cardinality(sent[i].data) <= FEC_PACKET_MAX_PAYLOAD_SIZE
       /\ \A j \in i + 1..Len(sent) : \A x \in sent[i].data, y \in sent[j].data : x < y

\* What the FECDecoder takes for granted of a stream: a block's indices are 0, 1,
\* 2 and so on with the primary ones first, its header tells their number (but 0 for
\* 256, which only a block without secondary ones can have), and the block index
\* goes up by one from block to block, across frames too.
BlocksDecodable ==
  /\ \A b \in IdxSent : \A i \in OfBlock(b) :
       /\ sent[i].fragment_idx = Cardinality({j \in OfBlock(b) : j < i})
       /\ sent[i].data # {} <=> sent[i].fragment_idx < Cardinality(Primary(b))
       /\ Cardinality(Primary(b)) < HdrMod =>
            sent[i].n_primary_fragments = Cardinality(Primary(b))
  /\ \A i \in 1..Len(sent) :
       LET next == IF i = Len(sent) THEN m_curr_block_idx ELSE sent[i + 1].block_idx
           step == (next - sent[i].block_idx) % IdxMod
       IN step = (IF i = Len(sent) \/ sent[i + 1].fragment_idx = 0 THEN 1 ELSE 0)

\* BlockSizeHelper.hpp:32-35: the minimum number of blocks of at most the given
\* size, as equal as possible; and the fragments of a block are equal too.
EvenlySplit ==
  /\ \A m \in PrimaryCounts : m <= frame.max_block_size
  /\ \A m, k \in PrimaryCounts : m <= k + 1
  /\ sent # <<>> =>
       (Cardinality(IdxSent) - 1) * frame.max_block_size
         < Cardinality({i \in 1..Len(sent) : sent[i].data # {}})
  /\ \A b \in IdxSent : \A i, j \in Primary(b) :
       Cardinality(sent[i].data) <= Cardinality(sent[j].data) + 1
=============================================================================
