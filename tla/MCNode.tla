------------------------------- MODULE MCNode -------------------------------
(***************************************************************************)
(* A small node: a block tree with a reorganization to a shorter chain and *)
(* one that fails, and the transactions in its blocks.                     *)
(***************************************************************************)
EXTENDS Node

\* The functions that follow from the tree.
MCHeight[b \in Block] == IF b = Genesis THEN 0 ELSE MCHeight[Prev[b]] + 1

MCPath[b \in Block] ==
    IF b = Genesis THEN <<b>> ELSE Append(MCPath[Prev[b]], b)

MCReplay[b \in Block] ==
    IF b = Genesis THEN NoCoins ELSE ConnectCoins(MCReplay[Prev[b]], b)

\* What the blocks create and consume follows from their transactions.
OutsOf(t) == {<<t, i>> : i \in 0 .. Outputs[t] - 1}
MCMade(b) == UNION {OutsOf(t) : t \in Range(Txs[b])}
MCUsed(b) == UNION {Prevouts(t) : t \in Range(Txs[b]) \cap Tx}
MCOutpoints == UNION {MCMade(b) : b \in Block}
MCSpent == [b \in Block |-> (MCUsed(b) \ MCMade(b)) \cap MCOutpoints]
MCCreated == [b \in Block |-> MCMade(b) \ MCUsed(b)]

(***************************************************************************)
(* p1 stands for the chain so far; its transaction f, whose own inputs are *)
(* not followed, funds the others.  The chain a2, a3 gives way to the      *)
(* shorter but heavier b2; y3, which is invalid, makes the node leave a3   *)
(* or b2 and come back.                                                    *)
(***************************************************************************)
SmallPrev == [p1 |-> "g", a2 |-> "p1", a3 |-> "a2", b2 |-> "p1", y3 |-> "a2"]
SmallBlocks == {"g"} \cup DOMAIN SmallPrev
SmallWork == [g |-> 0, p1 |-> 1, a2 |-> 2, a3 |-> 3, b2 |-> 4, y3 |-> 6]
SmallTxs ==
    [g |-> <<>>, p1 |-> <<"k1", "f">>, a2 |-> <<"ka2", "P", "D">>, a3 |-> <<"ka3", "Q">>,
     b2 |-> <<"kb2", "Z">>, y3 |-> <<"ky3">>]
SmallCoinbases == {"k1", "ka2", "ka3", "kb2", "ky3"}

(***************************************************************************)
(* P pays the wallet, which can make it itself; Q spends P and conflicts   *)
(* with Z of b2, which is not standard; M spends the coinbase of p1; D     *)
(* makes the pool overflow.  P and D are locked until p1 is connected.     *)
(***************************************************************************)
SmallInputs ==
    [f |-> << <<"old", 0>> >>, P |-> << <<"f", 0>> >>,
     Q |-> << <<"P", 0>>, <<"f", 1>> >>, Z |-> << <<"f", 1>> >>,
     D |-> << <<"f", 2>> >>, M |-> << <<"k1", 0>> >>]
SmallTx == DOMAIN SmallInputs
SmallOutputs ==
    [t \in SmallTx \cup SmallCoinbases |->
        IF t = "f" THEN 3 ELSE IF t \in SmallTx \/ t = "k1" THEN 1 ELSE 0]
SmallFee == [f |-> 0, P |-> 1, Q |-> 3, Z |-> 2, D |-> 2, M |-> 1]
SmallSize == [t \in SmallTx |-> 1]
SmallLocks == [t \in SmallTx |-> IF t = "P" THEN 1 ELSE 0]
SmallRels == [t \in SmallTx |-> IF t = "D" THEN 1 ELSE 0]
SmallFaults == [t \in SmallTx |-> IF t = "Z" THEN "late" ELSE "none"]
SmallMine == {<<"f", 0>>, <<"P", 0>>, <<"Q", 0>>, <<"k1", 0>>, <<"M", 0>>}
SmallValue == [o \in SmallMine |-> CASE o[1] = "f" -> 9 [] o[1] = "P" -> 8 [] OTHER -> 5]
SmallEnv ==
    {[order |-> <<"P", "Q", "Z", "D", "M", "f">>, old |-> {}],
     [order |-> <<"M", "D", "Z", "Q", "P", "f">>, old |-> {"P"}]}
=============================================================================
