------------------------------- MODULE WBTxRx -------------------------------
(***************************************************************************)
(* The link: the injecting side of one WBTxRx and the receiving side of     *)
(* another with several cards, src/wifibroadcast/src/WBTxRx.{h,cpp}, with   *)
(* the session keys of encryption/{Encryptor,Decryptor}.cpp and the loss    *)
(* count of HelperSources/UINT64SeqNrHelper.hpp.                            *)
(*                                                                         *)
(* A frame is captured by any of the receiver's cards or by none; a card    *)
(* keeps what it captured, in order, until the receive thread drains it.    *)
(* A key is the number of the sender's session: every start of the sender   *)
(* makes a new random one.  Which frames the filter lets through and what   *)
(* the receiver reports of them is WBRxStats.                               *)
(***************************************************************************)
EXTENDS Integers, Sequences, FiniteSets, SequencesExt, FiniteSetsExt

CONSTANTS
  Card,           \* the receiver's cards, 0..n
  TxCard,         \* the sender's cards
  NonceStart,     \* the random first nonces, of 32 bits, to explore
  MaxGap,         \* 10000 in the code: a larger gap is not counted as loss
  MaxFrames, MaxRestarts, MaxResets   \* bounds

ASSUME WBTxRxAssumption ==
  /\ Card # {} /\ Card \subseteq Nat /\ IsFiniteSet(Card)
  /\ TxCard # {} /\ IsFiniteSet(TxCard)
  /\ NonceStart \subseteq Nat /\ NonceStart # {}
  /\ MaxGap \in Nat \ {0}
  /\ MaxFrames \in Nat /\ MaxRestarts \in Nat /\ MaxResets \in Nat

VARIABLES
  key,        \* the sender's session key
  nonce,      \* m_nonce
  due,        \* m_session_key_next_announce_ts has passed
  passive, redundant,   \* m_disable_all_transmissions, m_enable_redundant_tx
  sent,       \* auxiliary: every frame given to a card, in order
  captured,   \* per card: the frames its driver holds
  ready,      \* cards the last poll() found readable and that are not drained yet
  session,    \* session_key of the decryptor, NoKey at first
  handler,    \* auxiliary: the session the stream handlers were last told of
  delivered,  \* auxiliary: the data frames handed to a stream handler, and when
  last, missing,        \* per card: m_last_seq_nr, m_n_missing_packets (all windows)
  handled, missingAtReset,  \* auxiliary: the frames last was set from, since the reset
  restarts, resets

senderVars == <<key, nonce, due, passive, redundant, sent, restarts>>
lossVars == <<last, missing, handled, missingAtReset, resets>>
vars == <<senderVars, captured, ready, session, handler, delivered, lossVars>>

NoKey == 0
NoNonce == -1        \* UINT64_MAX

Init ==
  /\ key = 1 /\ nonce \in NonceStart /\ due = TRUE
  /\ passive = FALSE /\ redundant = FALSE
  /\ sent = <<>>
  /\ captured = [c \in Card |-> <<>>]
  /\ ready = {}
  /\ session = NoKey /\ handler = NoKey
  /\ delivered = {}
  /\ last = [c \in Card |-> NoNonce] /\ missing = [c \in Card |-> 0]
  /\ handled = [c \in Card |-> {}] /\ missingAtReset = missing
  /\ restarts = 0 /\ resets = 0

-----------------------------------------------------------------------------
(* The sender.  tx_inject_packet runs under m_tx_mutex: one step.            *)

Frame(n, isData) == [key |-> key, nonce |-> n, data |-> isData]

\* Mutant: the data packet gets the nonce of the announcement.
FramesOneNonce ==
  (IF due THEN <<Frame(nonce, FALSE)>> ELSE <<>>) \o <<Frame(nonce, TRUE)>>

\* The session key first when it is time, then the packet: each has a new nonce.
Frames == IF due THEN <<Frame(nonce, FALSE), Frame(nonce + 1, TRUE)>> ELSE <<Frame(nonce, TRUE)>>

\* How often a frame is on the air at most: the session key goes out on card 0
\* only, data on the active card or on all of them.  None: injection failed.
Copies(f) == IF f.data /\ redundant THEN Cardinality(TxCard) ELSE 1

Repeat(f, n) == [i \in 1..n |-> f]

\* What one card captures of the frames.  That it keeps the order they were sent
\* in, copies of a frame together, is assumed of the air and the driver.
Capture(fs) ==
  LET heard == [i \in 1..Len(fs) |-> {Repeat(fs[i], n) : n \in 0..Copies(fs[i])}]
  IN IF Len(fs) = 1 THEN heard[1] ELSE {a \o b : a \in heard[1], b \in heard[2]}

TxInjectPacket ==
  /\ ~passive /\ Len(sent) < MaxFrames
  /\ sent' = sent \o Frames
  /\ nonce' = nonce + Len(Frames)
  /\ due' = FALSE
  /\ \E c \in [Card -> Capture(Frames)] : captured' = [k \in Card |-> captured[k] \o c[k]]
  /\ UNCHANGED <<key, passive, redundant, restarts, ready, session, handler, delivered, lossVars>>

\* session_key_packet_interval is over.
AnnounceDue ==
  /\ ~due
  /\ due' = TRUE
  /\ UNCHANGED <<key, nonce, passive, redundant, sent, restarts, captured, ready, session,
                 handler, delivered, lossVars>>

SetPassiveMode ==
  /\ passive' = ~passive
  /\ UNCHANGED <<key, nonce, due, redundant, sent, restarts, captured, ready, session,
                 handler, delivered, lossVars>>

SetEnableRedundantTx ==
  /\ redundant' = ~redundant
  /\ UNCHANGED <<key, nonce, due, passive, sent, restarts, captured, ready, session,
                 handler, delivered, lossVars>>

\* More than a countable gap away from every number on the air so far, up or down.
FarFromSent(n) ==
  \A i \in 1..Len(sent) : n < sent[i].nonce - MaxGap \/ n > sent[i].nonce + MaxGap

\* The sender's process starts again: new key, new random nonce, which is
\* taken to be far from the ones before (all are random 32 bit numbers).
Restart ==
  /\ restarts < MaxRestarts
  /\ restarts' = restarts + 1
  /\ key' = key + 1 /\ due' = TRUE
  /\ nonce' \in {n \in NonceStart : FarFromSent(n)}
  /\ passive' = FALSE /\ redundant' = FALSE
  /\ UNCHANGED <<sent, captured, ready, session, handler, delivered, lossVars>>

-----------------------------------------------------------------------------
(* The receive thread                                                        *)

Readable == {c \in Card : captured[c] # <<>>}

\* loop_receive_packets: the cards poll() reports are drained one after another.
Poll ==
  /\ ready = {} /\ Readable # {}
  /\ ready' = Readable
  /\ UNCHANGED <<senderVars, captured, session, handler, delivered, lossVars>>

Turn == Min(ready)

\* loop_iter_pcap ends when its card has nothing more.
Drained ==
  /\ ready # {} /\ captured[Turn] = <<>>
  /\ ready' = ready \ {Turn}
  /\ UNCHANGED <<senderVars, captured, session, handler, delivered, lossVars>>

\* Mutant: two packets are taken off the difference.
GapShort(diff) == diff - 2

\* Mutant: a gap is counted from the received packet on.
GapInclusive(diff) == diff

Gap(diff) == diff - 1

\* on_new_sequence_number: a step back or a huge step only moves the number.
OnNewSequenceNumber(c, f) ==
  LET diff == f.nonce - last[c]
  IN /\ last' = [last EXCEPT ![c] = f.nonce]
     /\ missing' = IF last[c] # NoNonce /\ diff > 0 /\ diff <= MaxGap
                   THEN [missing EXCEPT ![c] = @ + Gap(diff)] ELSE missing
     /\ handled' = [handled EXCEPT ![c] = @ \cup {f}]
     /\ UNCHANGED <<missingAtReset, resets>>

\* The next frame of the card whose turn it is.
Receive(f) ==
  /\ ready # {} /\ captured[Turn] # <<>> /\ f = Head(captured[Turn])
  /\ captured' = [captured EXCEPT ![Turn] = Tail(@)]
  /\ UNCHANGED <<senderVars, ready>>

\* Mutant: a key counts as new only before the first session.
IsNewSessionOnce(f) == session = NoKey

\* onNewPacketSessionKeyData: the key differs from the current one.
IsNewSession(f) == f.key # session

\* process_session_stream_packet; a new session is announced to the handlers.
ReceiveSessionKey(f) ==
  /\ Receive(f) /\ ~f.data
  /\ session' = f.key
  /\ handler' = IF IsNewSession(f) THEN f.key ELSE handler
  /\ OnNewSequenceNumber(Turn, f)
  /\ UNCHANGED delivered

Decrypts(f) == f.key = session

\* process_received_data_packet and on_valid_data_packet
ReceiveData(f) ==
  /\ Receive(f) /\ f.data /\ Decrypts(f)
  /\ delivered' = delivered \cup {[frame |-> f, card |-> Turn, told |-> handler]}
  /\ OnNewSequenceNumber(Turn, f)
  /\ UNCHANGED <<session, handler>>

RejectData(f) ==
  /\ Receive(f) /\ f.data /\ ~Decrypts(f)
  /\ UNCHANGED <<session, handler, delivered, lossVars>>

\* rx_reset_stats: the numbers are forgotten, the counts are not.
RxResetStats ==
  /\ resets < MaxResets
  /\ resets' = resets + 1
  /\ last' = [c \in Card |-> NoNonce]
  /\ handled' = [c \in Card |-> {}]
  /\ missingAtReset' = missing
  /\ UNCHANGED <<senderVars, captured, ready, session, handler, delivered, missing>>

Next ==
  \/ TxInjectPacket \/ AnnounceDue \/ SetPassiveMode \/ SetEnableRedundantTx \/ Restart
  \/ Poll \/ Drained
  \/ \E c \in Card : \E f \in ToSet(captured[c]) :
       ReceiveSessionKey(f) \/ ReceiveData(f) \/ RejectData(f)
  \/ RxResetStats

Spec == Init /\ [][Next]_vars

-----------------------------------------------------------------------------
(* Correctness                                                               *)

\* Type invariant.
TypeOK ==
  /\ key \in 1..(MaxRestarts + 1) /\ session \in 0..key /\ handler \in 0..key
  /\ nonce \in Nat /\ due \in BOOLEAN /\ passive \in BOOLEAN /\ redundant \in BOOLEAN
  /\ ready \subseteq Card
  /\ \A c \in Card : last[c] \in Nat \cup {NoNonce} /\ missing[c] \in Nat

\* A stream handler never gets data of a session it was not told of, so it has
\* reset its decoder before the first packet of every session.
SessionBeforeData == \A d \in delivered : d.frame.key = d.told

\* No nonce is used twice with the same key, announcements included.
NoncesUnique ==
  \A i, j \in 1..Len(sent) :
    sent[i].key = sent[j].key /\ sent[i].nonce = sent[j].nonce => i = j

\* Frames of the session that a card did not handle between two that it did.
Lost(c) ==
  {f \in ToSet(sent) \ handled[c] :
     \E a, b \in handled[c] : a.key = f.key /\ b.key = f.key
                              /\ a.nonce < f.nonce /\ f.nonce < b.nonce}

\* The loss a card reports is the number of frames it missed, whatever comes
\* of sessions, duplicates and resets of the statistics.
LossCounted ==
  \A c \in Card : missing[c] - missingAtReset[c] = Cardinality(Lost(c))
=============================================================================
