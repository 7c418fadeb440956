------------------------------- MODULE Wallet -------------------------------
(***************************************************************************)
(* The wallet's transaction database, src/wallet/txdb.c, and the part of   *)
(* src/wallet/wallet.c that keeps it in step with the chain.  The wallet   *)
(* lives in a database of its own, so it has to find out after a restart   *)
(* how far it got.                                                         *)
(*                                                                         *)
(* The wallet is a value w and every function an operator that returns the *)
(* new wallet.  What the code writes as one lcdb batch is one operator, and *)
(* a call that writes several is the list of them, so that a crash can     *)
(* fall between any two; the deletions that make room for one transaction  *)
(* count as one.  One account, no watch-only keys, no frozen coins.        *)
(***************************************************************************)
EXTENDS Transactions

CONSTANTS
    Mine,         \* outpoints that pay to a key of the wallet
    Value         \* what they are worth

ASSUME WalletAssumption ==
    /\ Value \in [Mine -> Nat]
    /\ \A o \in Mine : o[1] \in Tx \cup Coinbase /\ o[2] < Outputs[o[1]]

NewWallet(genesis) ==
    [hashes |-> <<genesis>>, \* block records, by height; the last is the tip
     txs |-> <<>>,           \* txmeta: hash -> height (-1: unconfirmed), index
     ids |-> <<>>,           \* hashes in the order of their ids
     blkidx |-> <<>>,        \* <<height, index>> -> hash
     coins |-> <<>>,         \* outpoint -> height, spent
     spends |-> <<>>,        \* outpoint -> hash of the spender
     undo |-> <<>>,          \* <<hash, outpoint>> -> height of the coin
     filter |-> {},          \* outpoints added by btc_wallet_watch (memory)
     number |-> 0,           \* balance.coin
     unconf |-> 0,           \* balance.unconfirmed
     conf |-> 0,             \* balance.confirmed
     aborted |-> FALSE]      \* a CHECK has failed

Outs(t) == {o \in Mine : o[1] = t}

SumValue(S) == FoldSet(LAMBDA o, n : Value[o] + n, 0, S)

\* Counters after the coins in plus become, and those in minus cease to be,
\* spendable.
Credit(w, plus, minus) ==
    [w EXCEPT !.number = @ + Cardinality(plus) - Cardinality(minus),
              !.unconf = @ + SumValue(plus) - SumValue(minus)]

Confirmed(w, plus, minus) == [w EXCEPT !.conf = @ + SumValue(plus) - SumValue(minus)]

Merge(f, S, v) == [x \in DOMAIN f \cup S |-> IF x \in S THEN v ELSE f[x]]

Pairs(t, S) == {<<t, o>> : o \in S}

SetUndo(w, t, S) ==
    [w EXCEPT !.undo = [k \in DOMAIN @ \cup Pairs(t, S) |->
                           IF k \in Pairs(t, S) THEN w.coins[k[2]].height ELSE @[k]]]

Require(w, cond) == [w EXCEPT !.aborted = @ \/ ~cond]

-----------------------------------------------------------------------------
(* One batch each.                                                         *)

\* btc_txdb_insert; height is -1 for a transaction of the pool.
InsertTx(w, t, height, index) ==
    LET own == Prevouts(t) \cap DOMAIN w.coins
        foreign == Prevouts(t) \ own
        mined == height # -1
        a == [SetUndo(Credit(w, Outs(t), own), t, own) EXCEPT
                !.txs = With(@, t, [height |-> height, index |-> index]),
                !.ids = Append(@, t),
                !.spends = Merge(@, IF mined THEN own ELSE Prevouts(t), t),
                !.coins = Merge(IF mined THEN Without(@, own)
                                ELSE [o \in DOMAIN @ |->
                                        IF o \in own THEN [@[o] EXCEPT !.spent = TRUE]
                                        ELSE @[o]],
                                Outs(t), [height |-> height, spent |-> FALSE]),
                !.filter = @ \cup Outs(t) \cup (IF mined THEN {} ELSE foreign)]
    IN  IF own = {} /\ Outs(t) = {}
        THEN IF mined THEN w ELSE [w EXCEPT !.filter = @ \cup foreign]
        ELSE IF mined
             THEN [Confirmed(a, Outs(t), own) EXCEPT !.blkidx = With(@, <<height, index>>, t)]
             ELSE a

\* Slip: the undo coins of spenders in the pool keep their height.
UpdateUndoNot(w, t, height) == w

\* db_update_undo for the outputs of t that are spent in the pool.
UpdateUndo(w, t, height) ==
    [w EXCEPT !.undo =
        [k \in DOMAIN @ |->
            IF /\ k[2] \in Outs(t) \cap DOMAIN w.coins
               /\ w.coins[k[2]].spent
               /\ k[2] \in DOMAIN w.spends
               /\ w.spends[k[2]] = k[1]
            THEN height ELSE @[k]]]

\* btc_txdb_confirm.
ConfirmTx(w, t, height, index) ==
    LET undone == {o \in Prevouts(t) : <<t, o>> \in DOMAIN w.undo}
        found == (Prevouts(t) \ undone) \cap DOMAIN w.coins
        unknown == Prevouts(t) \ (undone \cup found)
        fresh == Outs(t) \ DOMAIN w.coins
        a == Credit(SetUndo(w, t, found), fresh, found)
        b == UpdateUndo(a, t, height)
    IN  [Confirmed(Require(b, \A o \in undone \cup found : a.undo[<<t, o>>] # -1),
                   Outs(t), undone \cup found) EXCEPT
            !.txs = With(@, t, [height |-> height, index |-> index]),
            !.blkidx = With(@, <<height, index>>, t),
            !.spends = Without(Merge(@, found, t), unknown),
            !.filter = @ \cup fresh,
            !.coins = [o \in (DOMAIN @ \ (undone \cup found)) \cup Outs(t) |->
                          IF o \in Outs(t)
                          THEN [height |-> height,
                                spent |-> o \in DOMAIN @ /\ @[o].spent]
                          ELSE @[o]]]

\* btc_txdb_unconfirm.
UnconfirmTx(w, t) ==
    LET undone == {o \in Prevouts(t) : <<t, o>> \in DOMAIN w.undo}
        meta == w.txs[t]
        a == UpdateUndo(Require(w, /\ meta.height >= 0
                                 /\ \A o \in undone : w.undo[<<t, o>>] # -1
                                 /\ Outs(t) \subseteq DOMAIN w.coins),
                        t, -1)
    IN  IF t \notin DOMAIN w.txs THEN w
        ELSE [Confirmed(a, undone, Outs(t)) EXCEPT
                !.txs = With(@, t, [height |-> -1, index |-> -1]),
                !.blkidx = Without(@, {<<meta.height, meta.index>>}),
                !.spends = Merge(@, Prevouts(t) \ undone, t),
                !.filter = @ \cup Prevouts(t),
                !.coins = [o \in DOMAIN @ \cup undone |->
                              IF o \in undone THEN [height |-> w.undo[<<t, o>>], spent |-> TRUE]
                              ELSE IF o \in Outs(t) THEN [@[o] EXCEPT !.height = -1]
                              ELSE @[o]]]

\* The records of btc_txdb_erase: the inputs are unspent again.
EraseRecords(w, t) ==
    LET undone == {o \in Prevouts(t) : <<t, o>> \in DOMAIN w.undo}
        meta == w.txs[t]
    IN  [w EXCEPT
            !.txs = Without(@, {t}),
            !.ids = SelectSeq(@, LAMBDA u : u # t),
            !.blkidx = Without(@, {<<meta.height, meta.index>>}),
            !.spends = Without(@, IF meta.height < 0 THEN Prevouts(t) ELSE undone),
            !.undo = Without(@, Pairs(t, undone)),
            !.filter = @ \cup undone,
            !.coins = [o \in (DOMAIN @ \cup undone) \ Outs(t) |->
                          IF o \in undone THEN [height |-> w.undo[<<t, o>>], spent |-> FALSE]
                          ELSE @[o]]]

\* Slip: what comes back is not counted.
EraseUncounted(w, t) ==
    IF t \notin DOMAIN w.txs THEN w ELSE EraseRecords(Credit(w, {}, Outs(t)), t)

\* btc_txdb_erase.
EraseTx(w, t) ==
    LET undone == {o \in Prevouts(t) : <<t, o>> \in DOMAIN w.undo}
        a == Credit(w, undone, Outs(t))
    IN  IF t \notin DOMAIN w.txs THEN w
        ELSE EraseRecords(IF w.txs[t].height >= 0 THEN Confirmed(a, undone, Outs(t)) ELSE a, t)

\* btc_txdb_delete: first whatever spends the outputs of t.
RECURSIVE DeleteTx(_, _)
DeleteTx(w, t) ==
    EraseTx(FoldLeft(LAMBDA v, i :
                LET o == <<t, i - 1>>
                IN  IF o \in DOMAIN v.spends /\ v.spends[o] \in DOMAIN v.txs
                    THEN DeleteTx(v, v.spends[o])
                    ELSE v,
                w, [i \in 1 .. Outputs[t] |-> i]), t)

-----------------------------------------------------------------------------
(* btc_txdb_add.                                                           *)

IsOurs(w, t) == Outs(t) # {} \/ Prevouts(t) \cap w.filter # {}

Spenders(w, t) ==
    {w.spends[o] : o \in Prevouts(t) \cap DOMAIN w.spends} \cap (DOMAIN w.txs \ {t})

\* btc_txdb_remove_conflicts without unconf_only.
RemoveConflicts(w, t) ==
    FoldLeft(LAMBDA v, u : IF u \in DOMAIN v.txs THEN DeleteTx(v, u) ELSE v,
             w, SelectSeq(w.ids, LAMBDA u : u \in Spenders(w, t)))

AddTx(w, t, height, index) ==
    CASE ~IsOurs(w, t) -> w
      [] IsOurs(w, t) /\ t \in DOMAIN w.txs ->
            IF w.txs[t].height # -1 \/ height = -1 THEN w
            ELSE ConfirmTx(w, t, height, index)
      [] IsOurs(w, t) /\ t \notin DOMAIN w.txs ->
            IF height = -1 /\ \E u \in Spenders(w, t) : w.txs[u].height >= 0
            THEN w
            ELSE InsertTx(RemoveConflicts(w, t), t, height, index)

-----------------------------------------------------------------------------
(* Following the chain.  A block is its hash and height, and its           *)
(* transactions, the coinbase first.                                       *)

Tip(w) == Len(w.hashes) - 1

\* btc_wallet_set_tip.
SetTip(w, hash, height) ==
    [w EXCEPT !.hashes = Append(SubSeq(@, 1, height), hash)]

(***************************************************************************)
(* The batches of a call, in order.  Those of add_tx and connect:          *)
(* conflicts are deleted in batches of their own before the insertion.     *)
(***************************************************************************)
TipBatch(hash, height) ==
    [op |-> "tip", tx |-> hash, height |-> height, index |-> 0]
TxBatches(t, height, index) ==
    << [op |-> "clear", tx |-> t, height |-> height, index |-> index],
       [op |-> "add", tx |-> t, height |-> height, index |-> index] >>
UndoBatch(t) == [op |-> "undo", tx |-> t, height |-> -1, index |-> -1]

Write(w, batch) ==
    CASE batch.op = "tip"   -> SetTip(w, batch.tx, batch.height)
      [] batch.op = "add"   -> AddTx(w, batch.tx, batch.height, batch.index)
      [] batch.op = "undo"  -> UnconfirmTx(w, batch.tx)
      [] batch.op = "clear" ->
            IF \/ ~IsOurs(w, batch.tx)
               \/ batch.tx \in DOMAIN w.txs
               \/ batch.height = -1 /\ \E u \in Spenders(w, batch.tx) : w.txs[u].height >= 0
            THEN w
            ELSE RemoveConflicts(w, batch.tx)

WriteAll(w, batches) == FoldLeft(Write, w, batches)

AddTxBatches(t) == TxBatches(t, -1, -1)

\* btc_wallet_connect.
ConnectBatches(hash, height, txs) ==
    << TipBatch(hash, height) >>
        \o FlattenSeq([i \in DOMAIN txs |-> TxBatches(txs[i], height, i - 1)])

\* btc_txdb_revert: what was confirmed at this height or above, last first.
Confirmations(w, height) == {k \in DOMAIN w.blkidx : k[1] >= height}

RevertBatches(w, height) ==
    LET later(k, l) == k[1] > l[1] \/ (k[1] = l[1] /\ k[2] > l[2])
        keys == SetToSortSeq(Confirmations(w, height), later)
    IN  [i \in DOMAIN keys |-> UndoBatch(w.blkidx[keys[i]])]

\* btc_wallet_remove_block.
RemoveBlockBatches(w, prev, height) ==
    IF height # Tip(w) \/ height = 0 THEN <<>>
    ELSE RevertBatches(w, height) \o << TipBatch(prev, height - 1) >>

\* btc_wallet_rollback.
RollbackBatches(w, height) ==
    IF height = Tip(w) THEN <<>>
    ELSE RevertBatches(w, height + 1) \o << TipBatch(w.hashes[height + 1], height) >>

\* Slip: the scan starts above the last block the wallet knows.
RescanSkipsLast(w, main, height) ==
    LET scanned == SubSeq(main, height + 2, Len(main))
    IN  RollbackBatches(w, height) \o
            FlattenSeq([i \in DOMAIN scanned |->
                ConnectBatches(scanned[i].hash, height + i, scanned[i].txs)])

\* btc_wallet_rescan; main: the blocks of the main chain, by height.
RescanBatches(w, main, height) ==
    LET scanned == SubSeq(main, height + 1, Len(main))
    IN  RollbackBatches(w, height) \o
            FlattenSeq([i \in DOMAIN scanned |->
                ConnectBatches(scanned[i].hash, height + i - 1, scanned[i].txs)])

\* btc_wallet_add_block of the last block of main.
AddBlockBatches(w, main) ==
    LET height == Len(main) - 1
    IN  CASE height < Tip(w) -> <<>>
          [] height > Tip(w) + 1 -> RescanBatches(w, main, Tip(w))
          [] OTHER -> ConnectBatches(Last(main).hash, height, Last(main).txs)

\* btc_wallet_sync_state: the last block of the wallet that the node knows.
SyncHeight(w, known) == Max({h \in 0 .. Tip(w) : w.hashes[h + 1] \in known})

\* btc_wallet_load_filter.
LoadFilter(w) == [w EXCEPT !.filter = DOMAIN w.coins]

\* btc_wallet_abandon.
Abandon(w, t) ==
    IF t \in DOMAIN w.txs /\ w.txs[t].height = -1 THEN DeleteTx(w, t) ELSE w
=============================================================================
