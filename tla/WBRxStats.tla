----------------------------- MODULE WBRxStats -----------------------------
(***************************************************************************)
(* What the receiving side of WBTxRx (src/wifibroadcast/src/WBTxRx.cpp)      *)
(* makes of every frame its cards capture: the filtering of on_new_packet,   *)
(* the statistics it keeps (link pollution, wrong key, packet loss of        *)
(* HelperSources/UINT64SeqNrHelper.hpp) and the choice of the transmitting   *)
(* card.                                                                    *)
(*                                                                         *)
(* A frame is a record of the header fields the filter looks at.  Time is    *)
(* whether an interval is over when the code asks.  Counters that no         *)
(* decision reads (bytes, packets of any kind, likely packets, sessions),    *)
(* RF values and bit rates are left out; a reset by another thread is one    *)
(* step.                                                                    *)
(***************************************************************************)
EXTENDS Integers, Sequences, FiniteSets, SequencesExt, FiniteSetsExt

CONSTANTS
  OwnId, PeerId,      \* unique ids of this unit and of the one it listens to
  SessionStream,      \* STREAM_INDEX_SESSION_KEY_PACKETS
  SessionSize,        \* sizeof(SessionKeyPacket)
  MinPayload,         \* MIN_PACKET_PAYLOAD_SIZE
  MaxPayload,         \* RAW_WIFI_FRAME_MAX_PAYLOAD_SIZE
  BadKey,             \* the key of a session packet that cannot be opened
  SwitchThreshold,    \* 50: packets another card must be ahead
  MaxGap,             \* 10000
  ManyPackets, FewPackets,   \* 500 and 10: packets that end a loss window
  Traffic             \* bounds: [cards, frames, max, resets, timers], what one
                      \* behaviour is made of, and the intervals that may end in it

ASSUME WBRxStatsAssumption ==
  /\ OwnId # PeerId
  /\ SessionSize \in 1..MaxPayload /\ MinPayload \in 1..MaxPayload
  /\ SwitchThreshold \in Nat /\ MaxGap \in Nat \ {0}
  /\ FewPackets \in Nat \ {0} /\ ManyPackets >= FewPackets
  /\ \A t \in Traffic :
       /\ t.max \in Nat /\ t.resets \in Nat
       /\ t.cards # {} /\ IsFiniteSet(t.cards) /\ t.cards = 0..Cardinality(t.cards) - 1
       /\ t.timers \subseteq {"pollution", "key", "loss", "card"}
  /\ \A t \in Traffic : \A p \in t.frames :
       /\ p.usable \in BOOLEAN /\ p.dataFrame \in BOOLEAN
       /\ p.size \in Nat /\ p.nonce \in Nat

VARIABLES
  traffic,     \* the cards, and the frames on the air
  handled,     \* frames handled and resets done, up to traffic.max and traffic.resets
  session,     \* the decryptor's session_key, NoKey at first
  pollution,   \* total, openhd: the counters; perc: curr_link_pollution_perc
  wrongKey,    \* valid, invalid: the counters; mismatch: the flag shown
  seq,         \* per card: last number, received, missing and loss in percent
  lowest,      \* curr_lowest_packet_loss
  tx,          \* m_curr_tx_card; per card valid packets, now and when last compared
  \* auxiliary: what the reported values are about
  air,         \* frames on card 0 since the last calculation, and up to it
  keys,        \* session packets since the last check, and up to it
  numbers,     \* per card: the numbers of the current loss window and of the last one
  heard        \* per card valid packets since the last comparison or reset, and up
               \* to it; the card before it; whether there was a reset meanwhile

vars == <<traffic, handled, session, pollution, wrongKey, seq, lowest, tx, air, keys, numbers, heard>>
linkVars == <<traffic, handled, session>>
pollutionVars == <<pollution, air>>
keyVars == <<wrongKey, keys>>
lossVars == <<seq, lowest, numbers>>
txVars == <<tx, heard>>

NoKey == 0
NoNumber == -1      \* UINT64_MAX
Card == traffic.cards

\* per card values when a card has heard nothing
Zero(cards) == [c \in cards |-> 0]
NewSeq(cards) == [c \in cards |-> [last |-> NoNumber, received |-> 0, missing |-> 0, loss |-> -1]]

\* Counts of frames on card 0, by what they are.
NoAir == [wb |-> 0, own |-> 0, foreign |-> 0]
NoSession == [valid |-> FALSE, invalid |-> FALSE]

Init ==
  /\ traffic \in Traffic /\ handled = [frames |-> 0, resets |-> 0] /\ session = NoKey
  /\ pollution = [total |-> 0, openhd |-> 0, perc |-> 0]
  /\ wrongKey = [valid |-> 0, invalid |-> 0, mismatch |-> FALSE]
  /\ seq = NewSeq(Card) /\ lowest = -1
  /\ tx = [curr |-> 0, valid |-> Zero(Card), last |-> Zero(Card)]
  /\ air = [now |-> NoAir, upTo |-> NoAir]
  /\ keys = [now |-> NoSession, upTo |-> NoSession]
  /\ numbers = [now |-> [c \in Card |-> <<>>], upTo |-> [c \in Card |-> <<>>]]
  /\ heard = [now |-> Zero(Card), upTo |-> Zero(Card), from |-> 0,
              reset |-> FALSE, upToReset |-> FALSE]

\* Whether an interval the code measures is over: it may be, or not.
Over(timer) == {FALSE} \cup {TRUE : t \in {timer} \cap traffic.timers}

\* ceil(n / total * 100.0).  In doubles an exact percentage may come out one
\* higher; with up to 19 packets it never does.
Percent(n, total) == (100 * n + total - 1) \div total

-----------------------------------------------------------------------------
(* The filter of on_new_packet: early returns in the code's order.           *)

\* Malformed radiotap headers and bad checksums are dropped before any count.
Usable(p) == p.usable

Acceptable(p) == p.dataFrame /\ p.size \in 1..MaxPayload /\ p.srcId = p.dstId

\* Sent by this unit: another card heard it, or the driver gave it back.
FromOwn(p) == Acceptable(p) /\ p.srcId = OwnId

FromPeer(p) == Acceptable(p) /\ p.srcId = PeerId /\ p.srcPort = p.dstPort

IsSessionPacket(p) ==
  FromPeer(p) /\ p.srcPort.stream = SessionStream
  /\ ~p.srcPort.encrypted /\ p.size = SessionSize

IsDataPacket(p) ==
  FromPeer(p) /\ p.srcPort.stream # SessionStream /\ p.size >= MinPayload

\* Opened by crypto_box_open_easy
OpensSession(p) == IsSessionPacket(p) /\ p.key # BadKey

\* Decrypted, or authenticated when it is not encrypted
ValidData(p) == IsDataPacket(p) /\ session # NoKey /\ p.key = session

-----------------------------------------------------------------------------
(* Link pollution, on card 0                                                 *)

\* Mutant: a packet of this unit is not taken back.
CountPollutionOwn(c, p, validated) ==
  IF c # 0 THEN pollution
  ELSE [pollution EXCEPT !.total = @ + 1, !.openhd = IF validated THEN @ + 1 ELSE @]

CountPollution(c, p, validated) ==
  IF c # 0 \/ FromOwn(p) THEN pollution
  ELSE [pollution EXCEPT !.total = @ + 1, !.openhd = IF validated THEN @ + 1 ELSE @]

\* The packet on the air, for the properties.
CountAir(c, p, validated) ==
  LET kind == IF validated THEN "wb" ELSE IF FromOwn(p) THEN "own" ELSE "foreign"
  IN IF c # 0 THEN air ELSE [air EXCEPT !.now[kind] = @ + 1]

Pollution(c, p, validated) ==
  /\ pollution' = CountPollution(c, p, validated)
  /\ air' = CountAir(c, p, validated)

\* Mutant: only the total starts again.
PollutionRecalculatedTotal(u) ==
  [total |-> 0, openhd |-> u.openhd,
   perc |-> IF u.total > 0 THEN Percent(u.total - u.openhd, u.total) ELSE 0]

PollutionRecalculated(u) ==
  [total |-> 0, openhd |-> 0,
   perc |-> IF u.total > 0 THEN Percent(u.total - u.openhd, u.total) ELSE 0]

\* recalculate_pollution_perc more than a second after the last one: after every
\* round of poll() and when it timed out.
RecalculatePollutionPerc ==
  /\ TRUE \in Over("pollution")
  /\ pollution' = PollutionRecalculated(pollution)
  /\ air' = [now |-> NoAir, upTo |-> air.now]
  /\ UNCHANGED <<linkVars, keyVars, lossVars, txVars>>

-----------------------------------------------------------------------------
(* Packet loss per card                                                      *)

Counts(s, n) == s.last # NoNumber /\ n > s.last /\ n - s.last <= MaxGap

WindowOver(s, over2s, over5s) ==
  s.received >= ManyPackets \/ (over2s /\ s.received >= FewPackets) \/ over5s

\* Mutant: the missing packets of a window count in the next one too.
RecalculatedKeepMissing(s) ==
  [s EXCEPT !.loss = Percent(s.missing, s.received + s.missing), !.received = 0]

\* A window that is over has at least the packet that ended it.
Recalculated(s) ==
  [s EXCEPT !.loss = Percent(s.missing, s.received + s.missing), !.received = 0, !.missing = 0]

\* on_new_sequence_number and recalculate_loss_if_needed: a step back or a huge
\* step only moves the number.
SeqAfter(s, n, over2s, over5s) ==
  LET t == [s EXCEPT !.last = n, !.received = @ + 1, !.missing = @ + (n - s.last - 1)]
  IN IF ~Counts(s, n) THEN [s EXCEPT !.last = n]
     ELSE IF WindowOver(t, over2s, over5s) THEN Recalculated(t) ELSE t

OnNewSequenceNumber(c, n, over2s, over5s) ==
  /\ seq' = [seq EXCEPT ![c] = SeqAfter(@, n, over2s, over5s)]
  /\ LET all == Append(numbers.now[c], n)
     IN numbers' = IF Counts(seq[c], n)
                      /\ WindowOver([seq[c] EXCEPT !.received = @ + 1], over2s, over5s)
                   THEN [now |-> [numbers.now EXCEPT ![c] = <<n>>],
                         upTo |-> [numbers.upTo EXCEPT ![c] = all]]
                   ELSE [numbers EXCEPT !.now[c] = all]

\* The lowest loss any card knows of, as updated by a data packet.
LowestLoss(s) ==
  LET known == {s[c].loss : c \in Card} \ {-1}
  IN IF known = {} THEN -1 ELSE Min(known)

-----------------------------------------------------------------------------
(* The transmitting card                                                     *)

\* Mutant: the best number so far is not raised, so the last card ahead wins.
BestCardLast(delta, curr) ==
  LET ahead == {c \in Card : delta[c] > delta[curr] + SwitchThreshold}
  IN IF ahead = {} THEN curr ELSE Max(ahead)

\* The cards in turn, each against the best so far plus the threshold.
BestCard(delta, curr) ==
  LET best[n \in 0..Cardinality(Card)] ==
        IF n = 0 THEN curr
        ELSE IF delta[n - 1] > delta[best[n - 1]] + SwitchThreshold THEN n - 1 ELSE best[n - 1]
  IN best[Cardinality(Card)]

\* switch_tx_card_if_needed after a valid packet of card c; once per interval.
SwitchTxCardIfNeeded(c, intervalOver) ==
  LET valid == [tx.valid EXCEPT ![c] = @ + 1]
      now == [heard.now EXCEPT ![c] = @ + 1]
      delta == [k \in Card |-> valid[k] - tx.last[k]]
  IN IF Cardinality(Card) > 1 /\ intervalOver
     THEN /\ tx' = [curr |-> BestCard(delta, tx.curr), valid |-> valid, last |-> valid]
          /\ heard' = [now |-> Zero(Card), upTo |-> now, from |-> tx.curr,
                      reset |-> FALSE, upToReset |-> heard.reset]
     ELSE /\ tx' = [tx EXCEPT !.valid = valid]
          /\ heard' = [heard EXCEPT !.now = now]

-----------------------------------------------------------------------------
(* Handlers *)

Handle(c, p) ==
  /\ handled.frames < traffic.max
  /\ handled' = [handled EXCEPT !.frames = @ + 1]
  /\ c \in Card /\ p \in traffic.frames /\ Usable(p)
  /\ UNCHANGED traffic

\* Nothing the code recognises as a packet of the other unit, or not decrypted.
Discard(c, p) ==
  /\ Handle(c, p)
  /\ ~IsSessionPacket(p) /\ ~ValidData(p)
  /\ Pollution(c, p, FALSE)
  /\ UNCHANGED <<session, keyVars, lossVars, txVars>>

\* Mutant: the counters run on after a check.
CheckKeyKeep(w) ==
  [w EXCEPT !.mismatch = (w.valid = 0 /\ w.invalid >= 1)]

CheckKey(w) ==
  [valid |-> 0, invalid |-> 0, mismatch |-> w.valid = 0 /\ w.invalid >= 1]

\* process_session_stream_packet; the mismatch is checked every five seconds.
ProcessSessionStreamPacket(c, p) ==
  LET opened == OpensSession(p)
      counted == IF opened THEN [wrongKey EXCEPT !.valid = @ + 1]
                 ELSE [wrongKey EXCEPT !.invalid = @ + 1]
      seen == IF opened THEN [keys.now EXCEPT !.valid = TRUE]
              ELSE [keys.now EXCEPT !.invalid = TRUE]
  IN /\ Handle(c, p) /\ IsSessionPacket(p)
     /\ Pollution(c, p, opened)
     /\ \/ wrongKey' = counted /\ keys' = [keys EXCEPT !.now = seen]
        \/ /\ TRUE \in Over("key")
           /\ wrongKey' = CheckKey(counted) /\ keys' = [now |-> NoSession, upTo |-> seen]
     /\ session' = IF opened THEN p.key ELSE session
     /\ IF opened
        THEN \E over2s, over5s \in Over("loss") :
               (over5s => over2s) /\ OnNewSequenceNumber(c, p.nonce, over2s, over5s)
        ELSE UNCHANGED <<seq, numbers>>
     /\ UNCHANGED <<lowest, txVars>>

\* process_common_stream_packet and process_received_data_packet
ProcessCommonStreamPacket(c, p) ==
  /\ Handle(c, p) /\ ValidData(p)
  /\ \E over2s, over5s \in Over("loss") :
       (over5s => over2s) /\ OnNewSequenceNumber(c, p.nonce, over2s, over5s)
  /\ lowest' = LowestLoss(seq')
  /\ Pollution(c, p, TRUE)
  /\ \E intervalOver \in Over("card") : SwitchTxCardIfNeeded(c, intervalOver)
  /\ UNCHANGED <<session, keyVars>>

\* A history of numbers that the next one does not follow.
Broken(h) == IF h = <<>> \/ Last(h) = NoNumber THEN h ELSE Append(h, NoNumber)

\* rx_reset_stats: the reported values and the packet numbers, not the counters
\* behind pollution, key and loss, nor what the cards are compared with.
RxResetStats ==
  /\ pollution' = [pollution EXCEPT !.perc = 0]
  /\ wrongKey' = [wrongKey EXCEPT !.mismatch = FALSE]
  /\ seq' = [c \in Card |-> [seq[c] EXCEPT !.last = NoNumber, !.loss = -1]]
  /\ lowest' = -1
  /\ tx' = [tx EXCEPT !.valid = Zero(Card)]
  /\ air' = [air EXCEPT !.upTo = NoAir]
  /\ keys' = [keys EXCEPT !.upTo = NoSession]
  /\ numbers' = [now |-> [c \in Card |-> Broken(numbers.now[c])],
                 upTo |-> [c \in Card |-> <<>>]]
  /\ heard' = [heard EXCEPT !.now = Zero(Card), !.reset = TRUE]
  /\ handled.resets < traffic.resets
  /\ handled' = [handled EXCEPT !.resets = @ + 1]
  /\ UNCHANGED <<traffic, session>>

Next ==
  \/ \E c \in Card, p \in traffic.frames :
       Discard(c, p) \/ ProcessSessionStreamPacket(c, p) \/ ProcessCommonStreamPacket(c, p)
  \/ RecalculatePollutionPerc
  \/ RxResetStats

Spec == Init /\ [][Next]_vars

-----------------------------------------------------------------------------
(* Correctness                                                               *)

\* Type invariant, with the ranges of what is reported: a percentage, or -1 for
\* a loss not known; the counter of recognised packets never passes the total.
TypeOK ==
  /\ handled.frames \in 0..traffic.max /\ handled.resets \in 0..traffic.resets
  /\ pollution.openhd \in 0..pollution.total /\ pollution.perc \in 0..100
  /\ wrongKey.valid \in Nat /\ wrongKey.invalid \in Nat /\ wrongKey.mismatch \in BOOLEAN
  /\ \A c \in Card :
       /\ seq[c].loss \in -1..100 /\ seq[c].received \in Nat /\ seq[c].missing \in Nat
       /\ seq[c].last \in Nat \cup {NoNumber}
       /\ tx.valid[c] \in Nat /\ tx.last[c] \in Nat
  /\ lowest \in -1..100 /\ tx.curr \in Card

\* WBTxRx.h:233, "Percentage of non openhd packets over total n of packets": of
\* what card 0 heard in the last interval, packets of this unit left aside, the
\* share that was no validated packet of the other unit, rounded up.
PollutionIsShare ==
  LET all == air.upTo.foreign + air.upTo.wb
  IN pollution.perc = IF all = 0 THEN 0 ELSE Percent(air.upTo.foreign, all)

\* The user is told of mismatching keys just when the last interval checked had
\* session packets, on any card, and none of them could be opened.
WrongKeyTruthful == wrongKey.mismatch <=> keys.upTo.invalid /\ ~keys.upTo.valid

\* The steps of a loss window from one number to a later one, where neither a
\* restart of the sender nor a reset of the statistics came between.
Steps(h) ==
  {i \in 1..Len(h) - 1 :
     h[i] # NoNumber /\ h[i + 1] # NoNumber /\ h[i + 1] > h[i] /\ h[i + 1] - h[i] <= MaxGap}

\* The numbers such steps pass over, each with its step.
Missed(h) == UNION {{i} \X (h[i] + 1 .. h[i + 1] - 1) : i \in Steps(h)}

\* The loss reported for a card is, rounded up, the share of the numbers of its
\* last whole window that it did not receive: each window counts every step
\* once, the one that crosses into it too, and no other card's.
LossIsShare ==
  \A c \in Card :
    LET h == numbers.upTo[c]
        missed == Cardinality(Missed(h))
    IN seq[c].loss = IF h = <<>> THEN -1
                     ELSE Percent(missed, missed + Cardinality(Steps(h)))

\* After the cards were compared, none was ahead of the chosen one by more than
\* the threshold, and a card was given up only for one that far ahead; unless
\* the statistics were reset since the comparison before.
TxCardJustified ==
  ~heard.upToReset =>
    /\ \A c \in Card : heard.upTo[c] <= heard.upTo[tx.curr] + SwitchThreshold
    /\ tx.curr # heard.from =>
         heard.upTo[tx.curr] > heard.upTo[heard.from] + SwitchThreshold

\* WBTxRx.cpp:709, "we just take whatever card received the most amount of
\* packets" (beyond the threshold), since the last comparison or reset.
TakesBestCard ==
  \A c \in Card : heard.upTo[c] <= heard.upTo[tx.curr] + SwitchThreshold
=============================================================================
