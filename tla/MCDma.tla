------------------------------- MODULE MCDma -------------------------------
(***************************************************************************)
(* Dma with two overlapping destinations, in one row and in two.           *)
(***************************************************************************)
EXTENDS Dma

MCCopies ==
  {[dim |-> 1, blk |-> b, src |-> 100, dst |-> d, size |-> 2,
    num_reps |-> 1, src_stride |-> 0, dst_stride |-> 0] : b \in BOOLEAN, d \in {0, 1}}
  \cup
  {[dim |-> 2, blk |-> b, src |-> 200, dst |-> 0, size |-> n,
    num_reps |-> r, src_stride |-> 3, dst_stride |-> 2] :
      b \in BOOLEAN, n \in {1, 2}, r \in {0, 1, 2}}
=============================================================================
