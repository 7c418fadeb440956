------------------------------- MODULE Blocks -------------------------------
(***************************************************************************)
(* The block tree and the coin arithmetic that chain.c and chaindb.c       *)
(* share: what a block does to the coin database, and when it may do it.   *)
(*                                                                         *)
(* Blocks are named by their hashes.  A block is abstracted to its net     *)
(* effect on the coin database: the outpoints it consumes from coins that  *)
(* existed before it, and the outpoints it leaves behind.  Coins that are  *)
(* created and spent inside one block never reach the database; the module *)
(* CoinView follows them transaction by transaction.                       *)
(***************************************************************************)
EXTENDS Integers, Sequences

CONSTANTS
    Block,        \* block hashes the node can meet, the genesis included
    Genesis,      \* network->genesis.hash
    Prev,         \* header.prev_block
    Height,       \* entry->height
    Work,         \* entry->chainwork
    Path,         \* the blocks from the genesis to a block, along entry->prev
    Outpoint,     \* outpoints that occur in the blocks
    Spent,        \* outpoints a block consumes
    Created,      \* outpoints a block creates
    Replay,       \* the coins after connecting a block and all its ancestors
    Bip34,        \* blocks for which state->bip34 holds
    BadPow,       \* blocks whose hash misses the target of their header
    BadBody,      \* blocks that fail btc_block_check_sanity, body unmutated
    BadContext,   \* blocks that fail btc_chain_verify before the witness checks
    BadWeight,    \* blocks that fail the weight check after them
    BadInputs     \* blocks that fail scripts, amounts, sequence locks, sigops

None == -1

Coins == [Outpoint -> Nat \cup {None}]

NoCoins == [o \in Outpoint |-> None]

(***************************************************************************)
(* btc_view_spend and btc_view_add over a whole block, then                *)
(* btc_chaindb_save_view: consumed coins are deleted, created ones stored  *)
(* with the height of the block.                                           *)
(***************************************************************************)
ConnectCoins(c, b) ==
    [o \in Outpoint |-> IF o \in Created[b] THEN Height[b]
                        ELSE IF o \in Spent[b] THEN None
                        ELSE c[o]]

\* view->undo: the coins that b consumes, as they were before it.
UndoOf(c, b) == [o \in Outpoint |-> IF o \in Spent[b] THEN c[o] ELSE None]

\* Slip: the coins the block created are not deleted.
DisconnectKeepsCreated(c, b, u) ==
    [o \in Outpoint |-> IF o \in Spent[b] THEN u[o] ELSE c[o]]

(***************************************************************************)
(* btc_chaindb_disconnect_block: consumed coins come back from the undo    *)
(* record, created ones are deleted.                                       *)
(***************************************************************************)
DisconnectCoins(c, b, u) ==
    [o \in Outpoint |-> IF o \in Created[b] THEN None
                        ELSE IF o \in Spent[b] THEN u[o]
                        ELSE c[o]]

(***************************************************************************)
(* btc_chain_verify_duplicates (BIP30, skipped once BIP34 is active) and   *)
(* btc_chain_verify_inputs of block b on top of the coins c.               *)
(***************************************************************************)
VerifyInputs(c, b) ==
    /\ b \in Bip34 \/ \A o \in Created[b] : c[o] = None
    /\ \A o \in Spent[b] : c[o] # None
    /\ b \notin BadInputs

\* Every rule a block must meet to be connected on top of the coins c.
ValidOn(c, b) ==
    /\ b \notin BadPow \cup BadBody \cup BadContext \cup BadWeight
    /\ VerifyInputs(c, b)

\* A block all of whose ancestors, itself included, are valid in their place.
Good(b) ==
    \A i \in 2 .. Len(Path[b]) : ValidOn(Replay[Prev[Path[b][i]]], Path[b][i])

\* a is b or an ancestor of b.
IsAncestor(a, b) == Height[a] < Len(Path[b]) /\ Path[b][Height[a] + 1] = a

-----------------------------------------------------------------------------
ASSUME TreeAssumption ==
    /\ Genesis \in Block
    /\ Prev \in [Block \ {Genesis} -> Block]
    /\ Height \in [Block -> Nat]
    /\ Height[Genesis] = 0
    /\ \A b \in Block \ {Genesis} : Height[b] = Height[Prev[b]] + 1

\* btc_entry_get_chainwork adds the proof of the header, which is positive.
ASSUME WorkAssumption ==
    /\ Work \in [Block -> Nat]
    /\ \A b \in Block \ {Genesis} : Work[b] > Work[Prev[b]]

ASSUME PathAssumption ==
    /\ Path \in [Block -> Seq(Block)]
    /\ Path[Genesis] = <<Genesis>>
    /\ \A b \in Block \ {Genesis} : Path[b] = Append(Path[Prev[b]], b)

\* connect_block skips the genesis block: its coinbase is unspendable.
ASSUME EffectAssumption ==
    /\ Spent \in [Block -> SUBSET Outpoint]
    /\ Created \in [Block -> SUBSET Outpoint]
    /\ Spent[Genesis] = {}
    /\ Created[Genesis] = {}

ASSUME ReplayAssumption ==
    /\ Replay \in [Block -> Coins]
    /\ Replay[Genesis] = NoCoins
    /\ \A b \in Block \ {Genesis} :
            Replay[b] = ConnectCoins(Replay[Prev[b]], b)

\* "BIP34 made it impossible to create duplicate txids" (chain.c:1528).
ASSUME Bip34Assumption ==
    \A b \in Bip34 \cap (Block \ {Genesis}) :
        \A o \in Created[b] : Replay[Prev[b]][o] = None
=============================================================================
