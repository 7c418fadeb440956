----------------------------- MODULE MCCoinView -----------------------------
(***************************************************************************)
(* t1 consumes the coin of c1 and creates two; t2 and t4 compete for one   *)
(* of them; t3 consumes the other and the coin of c2.  A block is a        *)
(* coinbase and up to three others in any order, so that a child can be in *)
(* the block of its parent, before or after it, and a transaction twice in *)
(* a block.  The output of c0 is unspendable.                              *)
(***************************************************************************)
EXTENDS CoinView

MCCoinbase == {"c0", "c1", "c2"}
MCTx == MCCoinbase \cup {"t1", "t2", "t3", "t4"}
MCOutpoint == {"o1", "o2", "o1a", "o1b", "ot2", "ot3"}
MCInputs ==
    [c0 |-> <<>>, c1 |-> <<>>, c2 |-> <<>>, t1 |-> <<"o1">>, t2 |-> <<"o1a">>,
     t3 |-> <<"o1b", "o2">>, t4 |-> <<"o1a", "o1b">>]
MCOutputs ==
    [c0 |-> {}, c1 |-> {"o1"}, c2 |-> {"o2"}, t1 |-> {"o1a", "o1b"}, t2 |-> {"ot2"},
     t3 |-> {"ot3"}, t4 |-> {}]
MCCandidates ==
    {<<c>> \o s : c \in MCCoinbase,
                  s \in UNION {[1 .. n -> MCTx \ MCCoinbase] : n \in 0 .. 3}}
=============================================================================
