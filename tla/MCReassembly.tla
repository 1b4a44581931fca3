---------------------------- MODULE MCReassembly ----------------------------
(***************************************************************************)
(* Values for Reassembly: two-cell headers, payloads of at most two cells, *)
(* the value 3 announcing too much, and every segmentation of every stream *)
(* of MaxReceived cells into segments of at most MCSegmentLen.             *)
(***************************************************************************)
EXTENDS Reassembly

CONSTANT MCSegmentLen

MCBytes == 0..3
MCSegments == UNION {[1..n -> MCBytes] : n \in 1..MCSegmentLen}
=============================================================================
