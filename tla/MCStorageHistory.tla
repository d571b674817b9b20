------------------------- MODULE MCStorageHistory -------------------------
(***************************************************************************)
(* Instantiates StorageHistory for TLC: 2-bit block numbers (blocks 0..3,  *)
(* so the range can reach the last representable block), one decodable   *)
(* non-empty storage map, the empty map and one undecodable map.           *)
(***************************************************************************)
EXTENDS StorageHistory

CONSTANTS S1, SEmpty, SBad, SNil

MCRawStorage == {S1, SEmpty, SBad}
MCUndecodable == {SBad}

\* Every range a caller can send, including start > end and end = MaxBlock.
AllRequests == Blocks \X Blocks

\* Every range whose end is below the last representable block number.
BoundedRequests == Blocks \X (0..(MaxBlock - 1))

\* A call whose range ends at the last representable block number.
MaxEndRequests == {<<1, MaxBlock>>}

(***************************************************************************)
(* A range ending at MaxBlock never leaves the loop, and every wrap        *)
(* appends again: bound the accumulated history at one entry per block.   *)
(***************************************************************************)
HistoryBound == MaxBlock + 1
HistoryBounded == Len(historicStates) <= HistoryBound
=============================================================================
