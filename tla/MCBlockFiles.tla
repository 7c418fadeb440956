---------------------------- MODULE MCBlockFiles ----------------------------
(***************************************************************************)
(* A main chain of four blocks and a branch at height two.  A block file   *)
(* holds two or three blocks, an undo file one or two undo records.        *)
(***************************************************************************)
EXTENDS BlockFiles

MCPrev == [a1 |-> "g", a2 |-> "a1", a3 |-> "a2", a4 |-> "a3", b2 |-> "a1"]
MCEntry == {"g"} \cup DOMAIN MCPrev
MCHeight == [g |-> 0, a1 |-> 1, a2 |-> 2, a3 |-> 3, a4 |-> 4, b2 |-> 2]
MCSize ==
    [block |-> [g |-> 1, a1 |-> 1, a2 |-> 2, a3 |-> 1, a4 |-> 2, b2 |-> 1],
     undo  |-> [g |-> 0, a1 |-> 1, a2 |-> 2, a3 |-> 0, a4 |-> 1, b2 |-> 1]]
=============================================================================
