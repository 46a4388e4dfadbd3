---------------------------- MODULE MCFECEncoder ----------------------------
(* Blocks of up to eight fragments of up to four bytes over GF(16), for TLC. *)
EXTENDS FECTransfer

\* 9, 11 and 17 are split; when blocks may have nine, 9 are too many for one and
\* 17 for two.
MCFragmentCounts == {1, 7, 9, 11, 17}
\* From one byte to the eight payloads of a block, with 24 and 25 bytes around the
\* limit of the data stream and 33 behind that of the video stream; the buffer's 16
\* places full (46) and not enough (65).
MCFrameSizes == {1, 5, 6, 9, 13, 24, 25, 33, 46, 65}
MCMaxBlockSizes == {3, 8, 9}
MCOverheads == {0, 50, 100, 110}
\* The index of a block takes no part in decoding it, and each block has it once.
MCReceivedBlocks == {0}
=============================================================================
