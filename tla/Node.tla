-------------------------------- MODULE Node --------------------------------
(***************************************************************************)
(* The full node of src/node/node.c: the chain, the transaction pool and   *)
(* the wallet, tied together by the callbacks the chain and the pool make, *)
(* and the block templates of src/node/miner.c.                            *)
(*                                                                         *)
(* The node has one thread for all of them.  A block connected or          *)
(* disconnected is committed to the chain's database first and announced   *)
(* to the pool and the wallet after that: call holds the announcement      *)
(* until it is made, so that a crash can fall before, after and, since the *)
(* wallet writes a batch per transaction, inside it.  The pool is not kept *)
(* on disk.                                                                *)
(***************************************************************************)
EXTENDS ChainState, Mempool, Wallet

CONSTANTS
    Txs,          \* the transactions of a block, the coinbase first
    Offered,      \* transactions that peers relay
    Spendable,    \* transactions that btc_wallet_send may build
    Margin,       \* blocks the wallet waits beyond the maturity of a coinbase
    Env           \* order: in which a hash table yields the transactions;
                  \* old: the entries that are over the expiry time, if any

VARIABLES
    mp,           \* node->mempool
    wallet,       \* node->wallet
    call,         \* the callback in progress: kind, and for "connect" and
                  \* "disconnect" the block and whether a reorganization ends
    dropped,      \* history: what remove_block did not get back into the pool
    shaken,       \* history: a block was disconnected, no on_reorganize since
    missed,       \* history: a block came or went without a look at orphans
    strayed       \* history: a restart found the wallet's tip off the chain

others == <<dropped, shaken, missed, strayed>>
nodeVars == <<vars, mp, wallet, call, others>>

NoCall == [kind |-> "none"]

\* The chain as the pool and the wallet see it.
ChainView == [coins |-> coins, height |-> Len(heights) - 1]

Main == [i \in DOMAIN heights |-> [hash |-> heights[i], txs |-> Txs[heights[i]]]]

NodeInit ==
    /\ Init
    /\ mp = EmptyPool
    /\ wallet = NewWallet(Genesis)
    /\ call = NoCall
    /\ dropped = {}
    /\ shaken = FALSE
    /\ missed = FALSE
    /\ strayed = FALSE

-----------------------------------------------------------------------------
(* The chain.                                                              *)

\* The callbacks of the step that moves the tip: on_connect, with
\* on_reorganize after it at the end of a reorganization, or on_disconnect.
Announce ==
    call' = IF tip' = tip THEN NoCall
            ELSE IF tip' # Genesis /\ Prev[tip'] = tip
            THEN [kind |-> "connect", block |-> tip',
                  reorg |-> job.phase = "final" /\ job.fork # job.old]
            ELSE [kind |-> "disconnect", block |-> tip, reorg |-> FALSE]

ChainStep ==
    /\ call = NoCall
    /\ Proceed \/ \E b \in Block : AddBlock(b, "genuine")
    /\ Announce
    /\ UNCHANGED <<mp, wallet, others>>

\* The calls of on_tx that a call of the pool made, as batches of the wallet.
Relayed(m) == FlattenSeq([i \in DOMAIN m.sent |-> AddTxBatches(m.sent[i])])

Settle(m) == [m EXCEPT !.sent = <<>>]

\* A call left the pool as m: its transactions reach the wallet w, which goes
\* on with batches of its own.
Hear(w, m, batches) ==
    /\ mp' = Settle(m)
    /\ wallet' = WriteAll(w, Relayed(m) \o batches)

\* The pool after on_connect; on_reorganize, which sends nothing, follows if
\* reorg.
Connected(env) == AddPoolBlock(mp, ChainView, Tail(Txs[call.block]), env)

Reorganized(m, env) == IF call.reorg THEN HandleReorg(m, ChainView, env) ELSE m

OnConnect(env) ==
    /\ call.kind = "connect"
    /\ Hear(wallet, Reorganized(Connected(env), env), AddBlockBatches(wallet, Main))
    /\ shaken' = (shaken /\ ~call.reorg)
    /\ missed' = (missed \/ (DOMAIN mp.map = {} /\ DOMAIN mp.orphans # {}))
    /\ call' = NoCall
    /\ UNCHANGED <<vars, dropped, strayed>>

OnDisconnect(env) ==
    /\ call.kind = "disconnect"
    /\ Hear(wallet, RemovePoolBlock(mp, ChainView, Tail(Txs[call.block]), env),
            RemoveBlockBatches(wallet, Prev[call.block], Height[call.block]))
    /\ dropped' = dropped \cup (Range(Txs[call.block]) \ DOMAIN mp'.map)
    /\ shaken' = TRUE
    /\ missed' = TRUE
    /\ call' = NoCall
    /\ UNCHANGED <<vars, strayed>>

-----------------------------------------------------------------------------
(* Between two blocks.                                                     *)

Between == call = NoCall /\ job = Idle

\* A transaction from a peer: btc_mempool_add, and on_tx for each it accepts.
Relay(t, env) ==
    /\ Between
    /\ Hear(wallet, Add(mp, ChainView, t, env).mp, <<>>)
    /\ UNCHANGED <<vars, call, others>>

\* btc_selector_spendable of the coins that btc_wallet_fund selects.
Fundable(w, t) ==
    /\ Prevouts(t) \subseteq DOMAIN w.coins
    /\ \A o \in Prevouts(t) :
            /\ ~w.coins[o].spent
            /\ IsCoinbase(o) => /\ w.coins[o].height # -1
                                /\ Tip(w) + 1 >= w.coins[o].height + Maturity + Margin

\* btc_wallet_send: into the wallet first, then to the pool.
Send(t, env) ==
    /\ Between
    /\ Fundable(wallet, t)
    /\ LET w == WriteAll(wallet, AddTxBatches(t))
       IN  Hear(Require(w, w # wallet), Add(mp, ChainView, t, env).mp, <<>>)
    /\ UNCHANGED <<vars, call, others>>

AbandonTx(t) ==
    /\ Between
    /\ t \in DOMAIN wallet.txs
    /\ wallet' = Abandon(wallet, t)
    /\ UNCHANGED <<vars, mp, call, others>>

-----------------------------------------------------------------------------
(* Loss of the process.                                                    *)

\* The batches the wallet is writing, if it is writing any.
Writing(env) ==
    CASE call.kind = "connect" ->
            Relayed(Connected(env)) \o AddBlockBatches(wallet, Main)
      [] call.kind = "disconnect" ->
            Relayed(RemovePoolBlock(mp, ChainView, Tail(Txs[call.block]), env)) \o
                RemoveBlockBatches(wallet, Prev[call.block], Height[call.block])
      [] call.kind = "open" -> RescanBatches(wallet, Main, SyncHeight(wallet, index))
      [] OTHER -> <<>>

\* Some of the batches are committed, the others are not.
CutOff(batches) ==
    \E n \in 0 .. Len(batches) :
        LET w == WriteAll(wallet, SubSeq(batches, 1, n))
        IN  /\ wallet' = LoadFilter(w)
            /\ strayed' = (strayed \/ Last(w.hashes) \notin Range(heights'))

\* The process dies; btc_node_open opens the chain, then the wallet.
NodeCrash(env) ==
    /\ Crash
    /\ CutOff(Writing(env))
    /\ mp' = EmptyPool
    /\ call' = [kind |-> "open"]
    /\ dropped' = {}
    /\ shaken' = FALSE
    /\ missed' = FALSE

Resent(w) == SelectSeq(w.ids, LAMBDA t : w.txs[t].height = -1)

\* btc_wallet_resend.
Resend(w, env) ==
    Hear(w, FoldLeft(LAMBDA n, t : Add(n, ChainView, t, env).mp, EmptyPool,
                     SelectSeq(Resent(w), LAMBDA t : t \in Tx)),
         <<>>)

\* btc_wallet_sync_state, then btc_wallet_resend.
OpenWallet(env) ==
    /\ call.kind = "open"
    /\ Resend(WriteAll(wallet, RescanBatches(wallet, Main, SyncHeight(wallet, index))), env)
    /\ call' = NoCall
    /\ UNCHANGED <<vars, others>>

NodeNext ==
    \/ ChainStep
    \/ \E env \in Env :
          \/ OnConnect(env)
          \/ OnDisconnect(env)
          \/ OpenWallet(env)
          \/ NodeCrash(env)
          \/ \E t \in Offered : Relay(t, env)
          \/ \E t \in Spendable : Send(t, env)
    \/ \E t \in Tx : AbandonTx(t)

NodeSpec == NodeInit /\ [][NodeNext]_nodeVars

-----------------------------------------------------------------------------
(* The pool.                                                               *)

\* The tables of the pool agree after any mix of relayed transactions,
\* evictions, blocks and reorganizations.  mp->spents and mp->size are those
\* of the entries of mp->map, of which no two spend the same outpoint.  An
\* orphan waits for as many parents as mp->waiting has it under, and none of
\* them is in the pool.  No CHECK of track_entry, untrack_entry, add_orphan
\* or resolve_orphans fails.
PoolIndexed ==
    /\ ~mp.aborted
    /\ DOMAIN mp.spents = UNION {Prevouts(t) : t \in DOMAIN mp.map}
    /\ \A o \in DOMAIN mp.spents : Has(mp, mp.spents[o]) /\ o \in Prevouts(mp.spents[o])
    /\ \A t, u \in DOMAIN mp.map : t # u => Prevouts(t) \cap Prevouts(u) = {}
    /\ mp.size = FoldSet(LAMBDA t, n : Size[t] + n, 0, DOMAIN mp.map)
    /\ mp.size <= MaxSize
    /\ DOMAIN mp.orphans \cap DOMAIN mp.map = {}
    /\ Cardinality(DOMAIN mp.orphans) <= MaxOrphanTxs
    /\ \A t \in DOMAIN mp.orphans :
            mp.orphans[t] = Cardinality({h \in DOMAIN mp.waiting : t \in mp.waiting[h]})
    /\ \A h \in DOMAIN mp.waiting :
            /\ ~Has(mp, h)
            /\ mp.waiting[h] # {}
            /\ mp.waiting[h] \subseteq DOMAIN mp.orphans

\* No orphan is left behind: one that is still stored misses an input.  The
\* exceptions are blocks that add_block returns early from, because the pool
\* holds nothing but orphans, and blocks that are disconnected.
OrphansMiss ==
    call = NoCall /\ ~missed =>
        \A t \in DOMAIN mp.orphans : DOMAIN View(mp, ChainView, t) # Prevouts(t)

\* Every input of a pool transaction is a coin of the chain or an output of
\* another pool transaction, through blocks that confirm or double spend it
\* and through reorganizations; the one exception is the child of a
\* transaction that remove_block failed to bring back.
InputsAvailable ==
    call = NoCall =>
        \A t \in DOMAIN mp.map : \A o \in Prevouts(t) :
            OnChain(ChainView, o) \/ InPool(mp, o) \/ o[1] \in dropped

\* The coins a list of transactions leaves, each on top of the last.
RECURSIVE Spendings(_, _, _)
Spendings(cs, txs, height) ==
    IF txs = <<>> THEN TRUE
    ELSE LET t == Head(txs)
         IN  /\ \A o \in Prevouts(t) :
                   /\ o \in DOMAIN cs
                   /\ cs[o] # NoCoin
                   /\ IsCoinbase(o) => height >= cs[o] + Maturity
             /\ RelLock[t] = 0 \/ cs[Head(Inputs[t])] + RelLock[t] - 1 < height
             /\ LockTime[t] < height
             /\ Spendings([o \in (DOMAIN cs \ Prevouts(t)) \cup
                                 {<<t, i>> : i \in 0 .. Outputs[t] - 1} |->
                              IF o[1] = t THEN height ELSE cs[o]],
                          Tail(txs), height)

\* The block that btc_miner_template proposes on top of the tip would pass
\* the input checks of btc_chain_add, which btc_miner_generate and the CPU
\* miner CHECK: as long as every reorganization came to its end and nothing
\* got lost in it.
TemplateAccepted ==
    Between /\ ~shaken /\ (\A t \in DOMAIN mp.map : Parents(t) \cap dropped = {}) =>
        \A env \in Env :
            Spendings(coins, Assemble(mp, ChainView, env.order), Height[tip] + 1)

\* btc_get_rate: CHECK(fee >= 0), called by the miner for every pool entry
\* with the fees of the entry and its descendants.
FeesNotNegative == \A t \in DOMAIN mp.map : mp.map[t].desc_fee >= 0

-----------------------------------------------------------------------------
(* The wallet, as long as no restart found its tip off the main chain.  A   *)
(* wallet that strayed keeps the height of its own branch, from which       *)
(* btc_wallet_sync_state rescans, and loses each of these properties.       *)

\* The balance records are the sums over the coin records: the confirmed one
\* over the coins of the chain, the other over those no pool transaction
\* spends.
BalanceExact ==
    LET cs == wallet.coins
        unspent == {o \in DOMAIN cs : ~cs[o].spent}
    IN  ~strayed =>
        /\ wallet.number = Cardinality(unspent)
        /\ wallet.unconf = SumValue(unspent)
        /\ wallet.conf = SumValue({o \in DOMAIN cs : cs[o].height # -1})

\* Between two blocks the wallet knows exactly the coins of its keys on the
\* main chain, at their heights: through reorganizations, double spends of
\* its own transactions, and crashes in the middle of a block's batches.
WalletFollows ==
    Between /\ ~strayed =>
        /\ wallet.hashes = heights
        /\ {o \in DOMAIN wallet.coins : wallet.coins[o].height # -1}
                = {o \in Mine : OnChain(ChainView, o)}
        /\ \A o \in Mine : OnChain(ChainView, o) => wallet.coins[o].height = coins[o]

\* Unless the wallet strayed, no CHECK of txdb.c fails: an input's coin is
\* confirmed before its spender is, and a confirmed output's record is there
\* when its block goes.
WalletChecks == ~strayed => ~wallet.aborted
=============================================================================
