# Wifibroadcast in TLA+

A model of the wifibroadcast library (`src/wifibroadcast/src`), the link between a drone ("air") and its
ground station ("gnd"): video and telemetry are broadcast as raw wifi frames, with no association and no
acknowledgement, so loss, duplication (several receiving cards) and reordering (retransmission) are the normal
case. The modules below are written from the C++ code; the lines each definition stands for are in the map of `PROJECT.json`.

## The system

| Part | State | Operations | Who else touches it |
|---|---|---|---|
| `FunkyQueue` | queue, mutex, condition variable | `try_enqueue`, `enqueue_or_clear_enqueue`, `wait_dequeue_timed` | producers (user, rx thread), one consumer |
| `WBStreamTx` | packet/block queue, counters, sequence numbers and sent-packet history per type, remembered requests | enqueue (refusing or clearing), processing loop, `prepare_and_send_packet`, `process_retransmission_request`, `set_max_history_size_for_type`, destructor | user thread, processing thread, rx thread of `WBTxRx` (requests) |
| `FECEncoder`, `BlockSizeHelper`, `calculate_n_secondary_fragments` | current block index, fragment index | `encode_block`, `fragment_and_encode` | the processing thread only |
| `FECDecoder`, `RxBlock` | queue of blocks, last known block, counters | `process_valid_packet`, `reset_rx_queue` | rx thread or the processing thread of `WBStreamRx` |
| `SimpleStream` (FEC disabled) | next number; known numbers | `encode_packet_buffer`, `process_packet`, `reset_packets_map` | as above |
| `WBStreamRx` | packet queue, decoder, last number per type, request counter | `on_new_packet`, `on_new_session`, `check_gap_and_request`, `send_retransmission_request` | rx thread, processing thread |
| `WBTxRx` | session keys, nonce, announce time, tx card, per-card statistics, stream handlers | `tx_inject_packet`, `on_new_packet`, `process_session_stream_packet`, `switch_tx_card_if_needed`, `rx_reset_stats` | every sending thread (mutex), one rx thread, user |
| `WBVideoStreamTx` | frame queue, codec config | `enqueue_frame`, `set_config_data`, loop | user, processing thread |
| `lib/fec` | none (generated tables) | `fec_encode`, `fec_decode` over GF(256) | encoder and `RxBlock` |
| `DummyLink`, radiotap, UDP wrappers, helpers | sockets, header bytes, averages | I/O and formatting | - |

Data goes: user -> `WBStreamTx` queue -> encoder -> `prepare_and_send_packet` -> `WBTxRx::tx_inject_packet` -> air ->
`WBTxRx::on_new_packet` (per card) -> stream handler -> `WBStreamRx` -> decoder -> user. Requests for missing packets go
the other way, from `WBStreamRx::check_gap_and_request` to the handler `WBStreamTx` registers. A session key packet with
a new key resets every `WBStreamRx`.

What is hard: three threads share `WBStreamTx` and two share `WBStreamRx`; the fragments of a block come in any
order, several times or never, and the receive queue must give up blocks in time without losing order; counters are kept
beside the state they describe and are what decisions are made from; a sender may restart at any moment.

## Modules

| Module | Code | Contents |
|---|---|---|
| `RxBlock` | `fec/RxBlock.{h,cpp}`, selection and asserts of `fec/FEC.h:fecDecode` | operators on one block |
| `FECDecoder` | `fec/FECDecoder.{h,cpp}` | the receive queue, composed of `RxBlock`s: one action per outcome of `process_valid_packet`, and `reset_rx_queue` |
| `OrderedDelivery` | - | abstract specification of the decoder: data comes out in order, each fragment at most once, nothing of a block after it was reported done |
| `FunkyQueue` | `FunkyQueue.h` | the queue at the level of mutex, condition variable and notification |
| `WBStreamTx` | `WBStreamTx.{h,cpp}` | the sending stream and its three threads |
| `WBStreamRx` | `WBStreamRx.{h,cpp}`, decoder of `SimpleStream.hpp` | the receiving stream without FEC and its two threads |
| `WBTxRx` | `WBTxRx.{h,cpp}`, `encryption/*.cpp`, `UINT64SeqNrHelper.hpp` | a sender that may restart, the air, a receiver with several cards |
| `WBRxStats` | `WBTxRx.cpp` from `on_new_packet` on, `UINT64SeqNrHelper.hpp`, `Ieee80211Header.hpp` | what the receiver makes of every captured frame: filter, pollution, wrong key, loss windows, choice of the tx card |
| `FECEncoder` | `fec/FECEncoder.{h,cpp}`, `fec/FEC.cpp`, `BlockSizeHelper.hpp`, encoding of `WBStreamTx` and `WBVideoStreamTx` | split of a frame into blocks, blocks into fragments |
| `FECBase` | `lib/fec`: `gf_simple`, `gf_optimized`, `fec_base.cpp`; `fec/FEC.h:fecDecode` | pure functions: field, tables, regions, encoding, matrix inversion, decoding |
| `FECTransfer` | `FECEncoder::create_fec_packets`, `RxBlock::reconstructAllMissingData` | composes `FECEncoder`, a lossy channel and a receiver's block with the arithmetic of `FECBase` |
| `FECDecoderProofs`, `FECDecoderDelivery`, `FECEncoderProofs`, `FunkyQueueProofs`, `WBStreamTxProofs`, `WBTxRxProofs`, `WBRxStatsProofs`, `WBStreamRxProofs` | - | theorems and proofs |
| `MC*` | - | constants for TLC |

How state and actions correspond to the code:

- **`FECDecoder`.** `rx_queue`, `last_known_block` and `stats` are the members; a block is a record of its index, `k`,
  its fragment map and its counters. The outcomes of `process_valid_packet` are exclusive: `IgnorePacket` (old block or
  fragment already there), `FrontPending`/`FrontDone`/`FrontRecover` (the fragment belongs to the oldest block),
  `StoreFragment`, `FlushComplete`/`FlushRecover` (a later block becomes decodable and everything before it is given
  up). Each includes the creation of missing blocks and the eviction of old ones. `aborted` is set when an assert fails.
  Payload is the pair (block, fragment). `out` and `done` record both callbacks.
- **`FunkyQueue`.** An enqueue holds the mutex for one step; `notify_one` is a step of its own because the code calls it
  after unlocking. The consumer is running, waiting, or awake and about to test the predicate.
- **`WBStreamTx`.** `thread["process"]` and `thread["rx"]` are where the two sending threads are: the mutex is held by
  `RetransmissionRequest` until its packet is sent, while the processing thread releases it before `send_packet`. The
  increment of `m_n_injected_packets` is a load and a store. An item is the number of its fragments and packets.
  The loop of the processing thread is two steps, `TestRun` (the flag) and `Dequeue` or `DequeueNothing` (the end of the timed
  wait, which does not look at the flag again). A request may be for any number, given or not: receivers are other programs,
  and one may ask a sender that was restarted for what the old one sent. The auxiliaries `early` and `late` record the
  numbers first asked for before they were given, and the elements taken after the flag was cleared.
- **`WBStreamRx`.** With `enable_threading` the worker's gap check, update of the last number and decoding are separate
  steps, and `on_new_session` is two (`ResetDecoder`, `ResetGaps`): nothing protects what they share. Without it, a
  packet is one step. A packet carries its index on the air and the number of the `FECDisabledHeader`, which differ when
  it was injected several times. `StreamAssumption`: the indices of a type follow each other (`WBStreamTx.cpp:398`), and a session
  spans less than half of their 2^32 values, beyond which `(int32_t)(current_seq_num - last_seq)` takes a new packet for an old one.
- **`WBTxRx`.** The sender is one step per `tx_inject_packet` (mutex). A card captures each frame or not, and twice when
  it is sent by two cards; the receive thread drains the cards that `poll` found readable one after another. A session
  key is a number. A restart starts the 64 bit nonce at a new random number of 32 bits, which is taken to be more than `MaxGap` away
  from every number that has been on the air. That a card keeps the order of the frames it captures, with the copies of one
  frame together, is an assumption about the air and the driver (`Capture`); `LossCounted` rests on it. Because
  `tx_inject_packet` is one step, `NoncesUnique` takes its lock for granted: it would not notice a missing one.
- **`FECEncoder`.** One step per call: the blocks of its frame with their fragments, in the order sent. Data is a set of positions.
  A call may have any number of fragments or bytes, block size and overhead, since nothing between the user and the encoder
  checks them, and a config any size. When an assert fails in it, or it would write behind the 256 places of `m_block_buffer`,
  `failed` records the call and the program is over (`Fail`). The header has a byte for the number of primary fragments
  (`Header`). `FECEncoderAssumption` says what arithmetic is taken for exact: the ceiling of the float quotient up to 2^24 and the
  rounded product up to 2^22, and that a frame has fewer blocks than the 32 bit index has values.
- **`FECTransfer`.** A region is a sequence of field elements. `Transmitted` is what `create_fec_packets` puts out for a
  block of `FECEncoder`; `ReceiveFragments` writes the payloads that arrive into a `blockBuffer`, up to the moment there are
  k of them, which is when `FECDecoder` recovers (proved: `QueuedIncomplete`); `Reconstruct` is `fecDecode`. Both
  directions are linear in the payloads, and every byte of a payload is treated alike except that a whole number of lanes goes
  through the shuffle of two small tables and the rest through the multiplication table. So one payload per block is followed,
  the unit vectors, each once in the fast and once in the slow part of the region: a decoder that gives those back gives
  back every payload. The matrix search for a pivot off the diagonal is modelled, but no block reaches it: every
  submatrix of this (Cauchy) matrix keeps a diagonal that is not zero.
- **`WBRxStats`.** A frame is the header fields `on_new_packet` looks at; `Discard`, `ProcessSessionStreamPacket` and
  `ProcessCommonStreamPacket` are its outcomes, each with all the counters it changes. Time is whether an interval (five
  seconds for the key, one for pollution and the tx card, two and five for loss) is over when the code asks. The auxiliary
  `air`, `keys`, `numbers` and `heard` keep what was captured in each interval, from which the properties compute what
  should be reported. `rx_reset_stats`, called by another thread, is one step.

## Runs

| Run | Question | Bounds, and why they are enough | Result |
|---|---|---|---|
| `fec_decoder` | Is the receive queue right for any order, loss and duplication? | 4 blocks with k = 2, 3, 1, 2 and 1, 2, 0, 1 secondary fragments, a queue of 2, one new session. Blocks can be skipped, evicted, flushed, recovered with one and two missing primaries, and a gap can exceed the queue. | holds |
| `fec_eviction` | Does an evicted block forward what it has? | as above | violated, see Findings |
| `funky_queue` | Is a wakeup lost, an element reordered, lost or miscounted? | capacity 2, two producers, 5 elements: full, cleared and empty all happen with both producers between unlock and notify | holds |
| `stream_tx` | Accounts, history, retransmissions; does the thread work the queue off, and end soon? | queue of 2 and three items, so that the queue overflows, and two may wait when the stream is destroyed; two packet types; items of one and two packets; requests for one number as often as one likes, before it is given, while it is the newest or the oldest of the history, and after; the history limit is changed between 0 (which the code raises to 1) and 2 so that trimming happens | holds |
| `stream_tx_injected` | Is every injected packet counted? | two items, requests for two numbers | violated |
| `stream_rx` | Gap detection over reordering and wrap; forwarding and duplicates | 16 index values with the stream crossing the wrap, 10 requests per gap lowered to 2 and the map from 100 to 4, so that both limits are reached with 4 arrivals | holds |
| `stream_rx_stale` | Is every session forwarded, with a thread? | as above | violated |
| `link` | Sessions, nonces and loss count with two cards | 3 to 4 frames, one restart, one reset of the statistics: enough for a key, a lost frame between two heard ones, and the old key arriving on the second card after the new one on the first | holds |
| `fec_encoder` | Which calls fail; is the whole frame of the others sent, in blocks a decoder can use; does decoding give it back? | payload 4, MTU 3, config limit 6, 8 + 8 fragments in a block, a header of 4 bits; sizes up to and behind every limit (one byte, one payload, the config limit, full block, full buffer); index of 3 bits so that it wraps between frames. Arithmetic over GF(16) with x^4 + x + 1, an exact small copy of the code's: 8 + 8 rows and columns of the matrix instead of 128 + 128, all of which are used. In blocks of up to `SmallBlock` = 8 fragments any are lost, in larger ones no more than `MaxLost` = 2 primary ones, with every choice of secondary ones. One block (index 0) of each frame is followed into the receiver | holds |
| `fec_encoder_config` | Does every config that is admitted fit? | as above | violated |
| `rx_stats` | Is what the receiver reports what it captured, and the tx card well chosen? | four mixes of traffic: every early return of the filter; numbers that follow, skip and step back; three cards; all intervals at once. Thresholds 50, 500, 10 and 10000 are lowered to 1, 3, 2 and 10 so that 4 to 7 frames cross each of them; one or two resets | holds |
| `rx_stats_best` | Is the card that received most taken, resets or not? | as above | violated |

The properties, by what they protect:

- decoder: `NoAssertFails`, `QueueShape`, `QueuedIncomplete`, `CountersMatchMap`, `BlockDoneTruthful`,
  `BlocksAccountedFor`, and `DeliversInOrder`, the refinement of `OrderedDelivery`;
- queue: `NoLostWakeup`, `InOrder`, `Accounted`, `ElementsLeave`;
- sender: `DropsAccounted` (packets without FEC, frames with it), `HistoryIsTail`, `AnsweredOnce`, `SeenAnswered` (which says as well
  which packets can never be retransmitted: those requested before they were given a number), `StopsSoon`, `WorkerProgress`;
- receiver: `AskedOnce`, `AsksForMissing`, `GapsCovered`, `ReceivedForwarded`, `DuplicatesOnlyWhenLate`. They are stated
  for the first session when a thread is used: `stream_rx_stale` shows why later ones cannot be promised;
- link: `NoncesUnique`, `LossCounted`, `SessionBeforeData` (after a restart the old key that a card still holds does
  become the session again until the next announcement);
- receiver's reports: `PollutionIsShare`, `WrongKeyTruthful`, `LossIsShare` (each window counts every step of the numbers
  exactly once), `TxCardJustified`;
- encoder: `EncoderAsserts` (only calls beyond the limits `BeyondLimits` names fail), `FrameCarried`, `BlocksDecodable` (what
  `FECDecoder` takes for granted), `EvenlySplit`;
- both ends of the FEC arithmetic: `FrameRecovered`. The two assumptions of `FECBase` say that every element has an inverse
  and that the table, SSSE3 and NEON ways to multiply agree; TLC evaluates them for the field of the run.

Every property comes with a mutant in `PROJECT.json`: a plausible slip in one mapped definition that violates it.

**Deadlock** is checked except in the runs of `WBStreamTx`, `WBStreamRx`, `WBRxStats` and `FECEncoder`: after the destructor, when
the bounded input is used up, when nothing is on the air, or after a failed assert, those systems do stop.

**Fairness.** Only `FunkyQueue` and `WBStreamTx` state liveness. `FunkyQueue` assumes that a consumer that can take the
mutex does, and that a producer that left `try_enqueue`'s critical section reaches its `notify_one`; both only need
threads to be scheduled. The timeout of `wait_for` is deliberately not assumed: elements leave without it.
`WBStreamTx` assumes that the processing thread goes on while it can, which includes that its wait of 100 ms ends, and that the
receive thread inside `send_packet` returns from it and gives the mutex back. Weak fairness is enough although requests never
stop: the receive thread keeps the mutex over steps only to answer, and it answers a number once while it is in the history
(`AnsweredOnce`), to which nothing is added while the processing thread waits. Of calls that return at once, which hold it for
a moment, `std::mutex` is assumed to let the processing thread in between. Nobody is assumed to enqueue, to request or to destroy.

## Proofs

Assumptions on constants are the named ASSUMEs of the modules.

- **`FECDecoderProofs`**: `TypeOK`, `NoAssertFails`, `QueueShape`, `QueuedIncomplete`, `CountersMatchMap`, for every
  queue depth, number of blocks, block layout, and either value of `m_forward_gapped_fragments`. None is inductive
  alone. That the asserts of `fecDecode` hold rests on recovery happening at exactly k fragments; this on every queued
  block having fewer; this on the counters agreeing with the map; and this on all fragments of a block announcing the
  same k. The invariant `IInv` says it at once: the queue has consecutive indices up to `last_known_block`, and every
  block in it is well-formed, incomplete, and of the stream's k. There is one lemma per outcome of
  `process_valid_packet` (`FrontPendingStep` ... `FlushRecoverStep`), resting on lemmas about the queue (what pushing,
  evicting and replacing leaves) and on those about one block, which open the module: what `NewRxBlock`, `AddFragment`,
  `Forwarded` and `Reconstructed` do to a well-formed block, and that their asserts hold under the conditions the queue ensures.
- **`FECDecoderDelivery`**: `BlocksAccountedFor`, `BlockDoneTruthful` and `DeliversInOrder`, the refinement
  `Spec => OrderedDelivery!Spec`, under the same hypotheses. Two halves on top of `IInv`. The counting half (`CountOK`)
  keeps `BlocksAccountedFor` together with what a first packet and a reset start from; lemmas say how many blocks a packet
  creates or skips, and that as many are queued, popped or counted as lost. The delivery half keeps a relation between both
  callbacks' histories and the queue (`DeliveryOK`): what came out is in order and lies before the fragment to come next
  (the frontier), of the front block it is exactly the forwarded prefix, of the later ones nothing, and every reported block is
  older and reported with as many fragments as came out of it. Four elementary steps (replace the front block,
  forward from it, pop it, push a new one) keep that relation, and that nothing older than the frontier
  of before came out since (`Reached`). Each outcome of `process_valid_packet` is a sequence of such steps, so the relation
  holds again at its end, and the relation before and after gives the step of the abstract specification. `Emitted` of several blocks is
  built with `FlattenSeq`, whose recursive function is shown to exist and to be unique by a least counterexample.
- **`FECEncoderProofs`**: `EncoderAsserts`, `FrameCarried`, `BlocksDecodable` and `EvenlySplit`, for every number of fragments, frame
  and config size, block size, overhead, width of the index and payload size; no size is assumed to fit. `EncoderAsserts` is that a
  call within the limits passes all asserts and stays in the buffer (`FrameFits`, `SecondaryCounts`), so one that fails is beyond them. The loops that split
  are never wrong by more than a remainder: dealing fragments to the blocks in turn (`BlockSizesSplit`, over residues counted by a bijection)
  and taking a rounded-up share of the remaining bytes (`DistributedDealt`) give the same sizes, q or q + 1 with the larger ones first
  (`Hand`, `Dealt`). The other half is about the sequence sent. The invariant `IInv` says that `sent` is some data cut into
  pieces (`Pieces`), dealt to blocks (`Cut`), and laid out block after block with consecutive indices (`Placed`); `SendKeeps` is
  that every call of `Send` with such blocks makes it so, and `BlockKeeps` and `FragmentKeeps` that both ways to encode have them. From it a
  position of `sent` gives its block and place in it and back (`FragmentAt`, `PlaceOf`; no two blocks of a frame share an index,
  `IndicesDiffer`), and the properties are read off. They are about `FECEncoder!Spec`; the run checks
  `TransferSpec`, whose additional steps leave the encoder's variables alone. A failed call leaves nothing sent.
- **`FunkyQueueProofs`**: `TypeOK`, `NoLostWakeup`, `Accounted` and `InOrder`, for every capacity and set of producers.
  The invariant adds that all elements in the queue or taken were offered before (`Below`): order is only kept by an
  enqueue because the new element is larger than all of them.
- **`WBStreamTxProofs`**: `TypeOK`, `DropsAccounted`, `HistoryIsTail`, `AnsweredOnce`, `SeenAnswered` and
  `StopsSoon`, for every queue size, history limit, items, requests and packet types. The state falls into two halves no step of the code couples:
  the queue and its counters (`UserInv`), and numbers, history and requests (`SendInv`). The second is what the mutex is for: a number
  that a request can find is below the next number, the history of a type holds exactly its latest numbers, a request is answered only
  while its number is remembered, and the mutex is held exactly while the receive thread is answering. Requests for numbers not
  given yet are remembered as well; `SeenAnswered` tells them apart by `early`, whose numbers are never answered while they are remembered.
- **`WBTxRxProofs`**: `TypeOK`, `NoncesUnique`, `SessionBeforeData` and `LossCounted`, for every set of cards, any loss on each
  of them, and any number of restarts, frames and resets. What the sender sent is numbered consecutively within a session
  and sessions are numbered consecutively (`Consecutive`), each card hands frames on in the order they were sent, and the last
  number is that of the newest frame handled. The loss counter is then the number of frames sent between two handled ones,
  counted by a bijection with their positions; a reset in between and a restart are the other two cases. `LossCounted`
  has the hypothesis `MaxFrames <= MaxGap`: the code takes a larger step for a restart, so with more than 10000 frames lost in a
  row it does not count them.
- **`WBRxStatsProofs`**: `TypeOK`, `PollutionIsShare`, `WrongKeyTruthful`, `LossIsShare` and `TxCardJustified`, for every set of
  cards, traffic, threshold and timing. Reported values are about an interval that is over, so each invariant says that the code's counters
  are those of the interval in progress: `PollutionInv`, `KeyInv`; `LossInv`, by which a card has received as many numbers as its
  window has steps and misses as many as those steps pass over (one more number adds one step, `StepsAppend`, and the
  numbers between, `CountedAppend`); and `TxInv`, by which, without a reset, `count_p_valid` minus the value
  of the last comparison is what the card heard since. `BestOf` is the loop invariant of `switch_tx_card_if_needed`, proved over the recursive
  function `best` by a least counterexample.

- **`WBStreamRxProofs`**: `TypeOK`, `AskedOnce`, `GapsCovered`, `ReceivedForwarded`, `DuplicatesOnlyWhenLate` and `AsksForMissing`,
  for every stream, queue and map size, number of retries, index width, and either threading mode. They rest on `SignedDiff`: the
  signed difference of two indices on the air is the difference of the indices, for any even width. `GapOK` says of
  one type what has been seen so far: the last number is that of the newest packet checked, everything asked for is older
  than a packet seen, and everything missing between two packets seen is covered. The requests reach ahead of the last number
  while the worker is between both statements (`Ahead`), and `GapRequested`, `GapUpdated` and `GapStarted` are the statements of
  `check_gap_and_request` one by one, so the same lemmas serve the worker's separate steps and the receive thread's single one. Of the
  decoder, `Remembered` says that a forwarded number that is not known any more is smaller than a full map of
  known ones (`Forgotten`). With a thread of its own the properties are about the first session (`Clean`): the finding `stream_rx_stale`
  is what happens after it.

The library's induction theorems need an operator as a parameter and cannot be used. Where an induction is over
natural numbers, the proofs take the least counterexample instead (`LeastNatural`, from `WFMin` and the well-foundedness of <),
which also handles recursive functions. This needs no more than the theorems named; it does not reach `SetToSortSeq`, which the model of
`RxBlock` therefore avoids.

Only model-checked: `FrameRecovered`, which holds for the field of the run
(`FECBase` uses Bitwise, which no module with a theorem may reach); liveness (`ElementsLeave`, `WorkerProgress`), which
is out of reach of TLAPS with fairness.

## Findings

- `fec_eviction`: an evicted block keeps back available fragments behind a gap (`RxBlock.cpp:98` bounds an index by a count).
- `stream_tx_injected`: `m_n_injected_packets` is incremented by two threads without a lock.
- `stream_rx_stale`: a packet of the old session in `m_packet_queue` survives `on_new_session`; the new session's packet
  of the same number is then discarded as a duplicate.
- `rx_stats_best`: `rx_reset_stats` zeroes `count_p_valid` but not `last_received_n_valid_packets`, so at the next
  comparison of the cards a difference can be too small or negative and a card that heard fewer packets keeps sending.
- `fec_encoder_config`: `send_video_config` asserts that a config is smaller than 1449 bytes and then encodes it as one fragment, for
  which the encoder asserts at most 1441.

Two smaller ones are in the modules, at the definition, without a run of their own: `n_dropped_packets` grows by the size of the
frame that is kept, not of those thrown away (`WBStreamTx!EnqueueBlockDropping`, `WBStreamTx.cpp:205-208` against
`WBStreamTx.h:145-147`); and a frame cut into 256 fragments and sent without secondary ones passes every assert and fits the buffer,
but its header says that it has 0 primary fragments (`FECEncoder!Header`, the exception in `BlocksDecodable`).

## Not modelled

- **Outside the program's logic.** Cryptography (a frame decrypts exactly under the key that encrypted it), radiotap and
  802.11 header bytes, RF statistics, bit and packet rates, sockets, pcap, UDP wrappers, the dummy link, logging.
- **Outside states.** Data races whose outcome is not a state of the program (a `std::map` changed by two threads at the
  same moment, the stream handler map while a stream is destroyed) are listed as hazards.
- **Parts of modelled components.** In `WBTxRx`, disconnected cards and registering of handlers; in `UINT64SeqNrHelper`, the counter
  of big gaps; in `WBStreamRx`, the destructor. Frames of no fragments are outside `FECEncoder`. In `FECDecoder`, the warning for a forwarded
  fragment whose size field is out of range (`FECDecoder.cpp:55-59`), which no encoder writes. Rounding of doubles: percentages are
  exact fractions rounded up.
- **Most of the repository's lines.** The generated field tables (5498 lines: the multiplication, inverse and shuffle tables are
  modelled by what they contain, the logarithm and polynomial-division tables are unused), the vendored moodycamel queues (about
  5800 lines, which nothing under `src/wifibroadcast/src` uses any more), the executables, self tests and unit tests are no
  program logic of the library. What is modelled is a small share of all lines and most of those that decide something.

## Plan

In this order:

1. Retransmission end to end: `WBStreamRx`'s requests against `WBStreamTx`'s history over a channel that loses both
   directions; abstract specification: a packet that was sent is delivered at most once and, if an answer arrives, is
   delivered.
2. `WBStreamRx` in FEC mode: the two threads with `FECDecoder`'s state, and the wrap of `block_idx`.
3. Disconnected cards in `WBTxRx`.
