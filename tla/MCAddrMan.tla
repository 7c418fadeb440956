----------------------------- MODULE MCAddrMan -----------------------------
(***************************************************************************)
(* A small address manager: all addresses share one used bucket, so that   *)
(* they are interchangeable.                                               *)
(***************************************************************************)
EXTENDS AddrMan, TLC

OneBucket == [a \in Addr |-> 1]

Interchangeable == Permutations(Addr)
=============================================================================
