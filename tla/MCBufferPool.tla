---------------------------- MODULE MCBufferPool ----------------------------
(***************************************************************************)
(* BufferPool for TLC.  Nothing in the pool orders contents.               *)
(***************************************************************************)
EXTENDS BufferPool, TLC

MCPage == 1 .. 3
MCSymmetry == Permutations(Value)
=============================================================================
