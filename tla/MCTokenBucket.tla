---------------------------- MODULE MCTokenBucket ----------------------------
(* A small instance of TokenBucket for TLC.                                *)
EXTENDS TokenBucket, TLC

Interchangeable == Permutations(Users)
=============================================================================
