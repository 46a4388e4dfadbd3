---------------------------- MODULE FECTransfer ----------------------------
(***************************************************************************)
(* A FEC block from the sender's buffer to the receiver's: the encoder of    *)
(* FECEncoder, the correction data of create_fec_packets, a channel that     *)
(* loses fragments, and RxBlock::reconstructAllMissingData, with the         *)
(* arithmetic of FECBase.                                                   *)
(*                                                                         *)
(* Encoding and decoding are linear in the payloads and every byte of a      *)
(* payload is treated alike, so it is enough to follow one payload: byte i   *)
(* of primary fragment i is one and its other bytes are zero, once among     *)
(* the bytes multiplied a lane at a time and once among the others.  The     *)
(* zeroes that pad a shorter payload are zeroes here too.                    *)
(***************************************************************************)
EXTENDS FECEncoder, FECBase

CONSTANTS
  ReceivedBlocks,   \* bound: the block indices a receiver is followed for
  SmallBlock,       \* bound: blocks of so many fragments may lose any of them
  MaxLost           \* bound: primary fragments lost of a larger block

ASSUME FECTransferAssumption == 
  ReceivedBlocks \subseteq Nat /\ SmallBlock \in Nat /\ MaxLost \in Nat

VARIABLE block      \* the block received: its k, fragment_map and blockBuffer

NoBlock == [k |-> 0, fragment_map |-> {}, blockBuffer |-> <<>>]

transferVars == <<vars, block>>

TransferInit == Init /\ block = NoBlock

\* The payload of primary fragment i of k.
Payload(k, i) == [j \in 1..Lane + k |-> IF j \in {i, Lane + i} THEN 1 ELSE 0]

Payloads(k) == [i \in 1..k |-> Payload(k, i)]

-----------------------------------------------------------------------------

Encode == block = NoBlock /\ Next /\ UNCHANGED block

\* The number of fragments sent of block b, and what its header says of them.
Fragments(b) == Cardinality(OfBlock(b))
NPrimary(b) == sent[Min(OfBlock(b))].n_primary_fragments

\* create_fec_packets: the payloads of block b as they go out.
Transmitted(b) ==
  LET primary == Payloads(Cardinality(Primary(b)))
  IN primary \o fec_encode(primary, Fragments(b) - Len(primary))

\* The block's first k fragments to arrive are R, some primary fragment missing;
\* each payload is written to its place (fragment_copy_payload).
ReceiveFragments(b, R) ==
  LET k == NPrimary(b)
      payloads == Transmitted(b)
  IN /\ block = NoBlock
     /\ Cardinality(R) = k /\ ~(0..k - 1 \subseteq R)
     /\ block' = [k |-> k, fragment_map |-> R,
                  blockBuffer |-> [i \in 1..Fragments(b) |->
                                     IF i - 1 \in R THEN payloads[i] ELSE None]]
     /\ UNCHANGED vars

\* reconstructAllMissingData: afterwards every primary fragment is available.
Reconstruct ==
  /\ ~(0..block.k - 1 \subseteq block.fragment_map)
  /\ block' = [block EXCEPT
       !.fragment_map = 0..block.k - 1,
       !.blockBuffer = fecDecode(@, block.k, block.fragment_map)]
  /\ UNCHANGED vars

\* The block is forwarded and leaves the receive queue.
Forward ==
  /\ block # NoBlock /\ 0..block.k - 1 \subseteq block.fragment_map
  /\ block' = NoBlock
  /\ UNCHANGED vars

\* What the channel may deliver of block b, at least one primary lost.
Deliveries(b) ==
  LET k == NPrimary(b)
      all == Fragments(b)
      most == IF all <= SmallBlock THEN k ELSE MaxLost
  IN UNION {{((0..k - 1) \ lost) \cup repair :
               lost \in kSubset(n, 0..k - 1), repair \in kSubset(n, k..all - 1)} :
             n \in 1..Min({most, k, all - k})}

TransferNext ==
  \/ Encode
  \/ \E b \in ReceivedBlocks \cap IdxSent :
       block = NoBlock /\ \E R \in Deliveries(b) : ReceiveFragments(b, R)
  \/ Reconstruct
  \/ Forward

TransferSpec == TransferInit /\ [][TransferNext]_transferVars

-----------------------------------------------------------------------------

\* fec_base.h and test_fec: any k of the fragments of a block give back exactly
\* its k primary payloads, and decoding them never meets a singular matrix.
FrameRecovered ==
  block # NoBlock /\ 0..block.k - 1 \subseteq block.fragment_map
    => block.blockBuffer = Payloads(block.k)
=============================================================================
