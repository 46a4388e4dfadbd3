--------------------------- MODULE OrderedDelivery ---------------------------
(***************************************************************************)
(* What the FEC decoder promises its user (FECDecoder.h:14-17 and :42):     *)
(* the data of the stream comes out in order, without duplicates, possibly  *)
(* with gaps, whatever the link does.  Blocks are closed in order; what is  *)
(* not delivered of a block when it is closed is a gap for good.            *)
(***************************************************************************)
EXTENDS Integers, Sequences, SequencesExt

CONSTANTS Block, NPrimary   \* the stream: its blocks and the data fragments of each

VARIABLES
  delivered,  \* the <<block, fragment>> delivered in this session
  closed      \* the blocks closed in this session, in order

odVars == <<delivered, closed>>

Before(x, y) == x[1] < y[1] \/ (x[1] = y[1] /\ x[2] < y[2])

InOrder(s) == \A i, j \in DOMAIN s : i < j => Before(s[i], s[j])

Ascending(s) == \A i, j \in DOMAIN s : i < j => s[i] < s[j]

OfStream(x) == x[1] \in Block /\ x[2] \in 0..(NPrimary[x[1]] - 1)

ODInit == delivered = <<>> /\ closed = <<>>

\* Some more of the stream comes out, from blocks that were still open; some
\* more blocks are closed.
Advance ==
  /\ IsPrefix(delivered, delivered') /\ IsPrefix(closed, closed')
  /\ InOrder(delivered') /\ Ascending(closed')
  /\ \A i \in (Len(delivered) + 1)..Len(delivered') :
       /\ OfStream(delivered'[i])
       /\ delivered'[i][1] \notin ToSet(closed)

\* A new session starts a new stream.
Restart == delivered' = <<>> /\ closed' = <<>>

ODSpec == ODInit /\ [][Advance \/ Restart]_odVars
=============================================================================
