---------------------------- MODULE MCChainState ----------------------------
(***************************************************************************)
(* Small block trees for ChainState.                                       *)
(***************************************************************************)
EXTENDS ChainState

\* The functions that follow from the tree.
MCHeight[b \in Block] == IF b = Genesis THEN 0 ELSE MCHeight[Prev[b]] + 1

MCPath[b \in Block] ==
    IF b = Genesis THEN <<b>> ELSE Append(MCPath[Prev[b]], b)

MCReplay[b \in Block] ==
    IF b = Genesis THEN NoCoins ELSE ConnectCoins(MCReplay[Prev[b]], b)

(***************************************************************************)
(* Three branches over p.  The same transaction is confirmed in a2 and in  *)
(* b2: both spend the coin of p and create ct; b3 spends ct.  b4 is        *)
(* invalid: it makes the chain reorganize to b3 and fail there.  c2 spends *)
(* a coin that only exists on branch a, so that reorganizing to c4 fails   *)
(* half way.  d3 would create the coin ct a second time (BIP30).           *)
(***************************************************************************)
ReorgPrev ==
    [p |-> "g", a2 |-> "p", a3 |-> "a2", b2 |-> "p", b3 |-> "b2", b4 |-> "b3",
     c2 |-> "p", c3 |-> "c2", c4 |-> "c3", d3 |-> "a2"]
ReorgBlocks == {"g"} \cup DOMAIN ReorgPrev
ReorgOutpoints == {"cp", "ca", "ct"}
ReorgSpent ==
    [b \in ReorgBlocks |-> CASE b \in {"a2", "b2"} -> {"cp"}
                             [] b = "b3" -> {"ct"}
                             [] b = "c2" -> {"ca"}
                             [] OTHER -> {}]
ReorgCreated ==
    [b \in ReorgBlocks |-> CASE b = "p"  -> {"cp"}
                             [] b = "a2" -> {"ca", "ct"}
                             [] b \in {"b2", "d3"} -> {"ct"}
                             [] OTHER -> {}]

(***************************************************************************)
(* A valid branch a2, a3 over p, between blocks that fail every kind of    *)
(* check: high-hash, sanity, context, weight, and inputs (c2 spends a coin *)
(* that only exists on branch a).  heavy extends a2 as a3 does.  c4, which *)
(* is fine but for its ancestor c2, has more work than a3 and makes the    *)
(* chain reorganize away from it.                                          *)
(***************************************************************************)
RacePrev ==
    [p |-> "g", a2 |-> "p", a3 |-> "a2", c2 |-> "p", c3 |-> "c2", c4 |-> "c3",
     pow |-> "p", sane |-> "p", ctx |-> "p", heavy |-> "a2"]
RaceBlocks == {"g"} \cup DOMAIN RacePrev
RaceOutpoints == {"cp", "ca"}
RaceSpent ==
    [b \in RaceBlocks |-> CASE b = "a2" -> {"cp"}
                            [] b \in {"a3", "c2"} -> {"ca"}
                            [] OTHER -> {}]
RaceCreated ==
    [b \in RaceBlocks |-> CASE b = "p"  -> {"cp"}
                            [] b = "a2" -> {"ca"}
                            [] OTHER -> {}]
=============================================================================
