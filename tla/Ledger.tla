------------------------------- MODULE Ledger -------------------------------
(***************************************************************************)
(* The abstract ledger that the chain and its database promise to be: a    *)
(* tip and the coins of the chain that ends in it.  It moves one block at  *)
(* a time; it moves up only onto a valid block; and whatever the history   *)
(* of its moves, the coins are those of a replay from the genesis block.   *)
(***************************************************************************)
EXTENDS Blocks

VARIABLES head, utxo

LedgerInit == head = Genesis /\ utxo = NoCoins

Extend(b) ==
    /\ b # Genesis
    /\ Prev[b] = head
    /\ ValidOn(utxo, b)
    /\ head' = b
    /\ utxo' = Replay[b]

Retract ==
    /\ head # Genesis
    /\ head' = Prev[head]
    /\ utxo' = Replay[Prev[head]]

LedgerNext == Retract \/ \E b \in Block : Extend(b)

LedgerSpec == LedgerInit /\ [][LedgerNext]_<<head, utxo>>
=============================================================================
