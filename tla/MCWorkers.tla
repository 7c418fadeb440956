----------------------------- MODULE MCWorkers -----------------------------
(***************************************************************************)
(* Work items for Workers: batches of one, two, ten and twelve.  Twelve    *)
(* items for three threads make slices of one and of two, and a share of   *)
(* three, which max_batch cuts.                                            *)
(***************************************************************************)
EXTENDS Workers

MCList == <<"w1", "w2", "w3", "w4", "w5", "w6", "w7", "w8", "w9", "w10", "w11", "w12">>
MCWork == Range(MCList)
MCOffered == {MCList, SubSeq(MCList, 1, 2), SubSeq(MCList, 2, 2), SubSeq(MCList, 3, 12)}
=============================================================================
