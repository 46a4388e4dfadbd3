---------------------------- MODULE MCWBRxStats ----------------------------
(* Three kinds of traffic on a ground unit, for TLC. *)
EXTENDS WBRxStats

Port(stream) == [encrypted |-> FALSE, stream |-> stream]

\* A session packet of the other unit with key 1, and one of its data packets.
Session ==
  [usable |-> TRUE, dataFrame |-> TRUE, size |-> SessionSize, srcId |-> PeerId, dstId |-> PeerId,
   srcPort |-> Port(SessionStream), dstPort |-> Port(SessionStream), key |-> 1, nonce |-> 1]
Data == [Session EXCEPT !.srcPort = Port(1), !.dstPort = Port(1), !.size = MinPayload]

Numbered(p, n) == [p EXCEPT !.nonce = n]

\* Every early return of the filter, and every outcome after it.
AnyFrames ==
  {Session, Data,
   [Data EXCEPT !.usable = FALSE],
   [Data EXCEPT !.dataFrame = FALSE],
   [Data EXCEPT !.size = 0], [Data EXCEPT !.size = MaxPayload + 1],
   [Data EXCEPT !.dstId = OwnId],
   [Data EXCEPT !.srcId = OwnId, !.dstId = OwnId],
   [Data EXCEPT !.srcId = "other", !.dstId = "other"],
   [Data EXCEPT !.dstPort = Port(2)],
   [Data EXCEPT !.size = MinPayload - 1],
   [Data EXCEPT !.key = 2],
   [Session EXCEPT !.key = BadKey],
   [Session EXCEPT !.key = 2],
   [Session EXCEPT !.size = SessionSize - 1],
   [Session EXCEPT !.srcPort.encrypted = TRUE, !.dstPort.encrypted = TRUE]}

\* Numbers that follow each other, a gap, and a restart of the sender.
NumberedFrames == {Session} \cup {Numbered(Data, n) : n \in {1, 2, 4, 60}}

MCTraffic ==
  {[cards |-> {0, 1}, frames |-> AnyFrames, max |-> 4, resets |-> 1,
    timers |-> {"pollution", "key"}],
   [cards |-> {0, 1}, frames |-> NumberedFrames, max |-> 5, resets |-> 1,
    timers |-> {"loss"}],
   [cards |-> {0, 1, 2}, frames |-> {Session, Data}, max |-> 7, resets |-> 1,
    timers |-> {"card"}],
   [cards |-> {0, 1}, frames |-> {Session, Data}, max |-> 4, resets |-> 2,
    timers |-> {"pollution", "key", "loss", "card"}]}
=============================================================================
