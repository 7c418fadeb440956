# mako in TLA+

A TLA+ development of the parts of mako that are hard to test: the block chain
and its database, the block files, the coin view, the transaction pool, the
wallet's transaction database, block download, the address manager, the thread
pool and the CPU miner. The modules are checked with TLC on small instances.
The safety properties of the chain, the block files, the coin view, the thread
pool, the miner and the address manager are also proved with TLAPS for every
value of the constants. Paths below are
relative to `src/` of the repository (`node/chain.c` is `src/src/node/chain.c`
in `PROJECT.json`).

## The system

mako is a bitcoin full node in C. One event loop runs everything but script
checks and mining, which have threads.

| part | source | modelled in |
|---|---|---|
| chain: accept, orphan, reorganize, recover | `node/chain.c` | `ChainState`, `Blocks`, `Ledger` |
| chain database: batches, index, coins, undo | `node/chaindb.c` | `ChainState`, `BlockFiles` |
| block and undo files, pruning | `node/chaindb.c` | `BlockFiles` |
| coin view and undo list | `view.c`, `undo.c`, `tx.c` | `CoinView` |
| thread pool and parallel checker | `io/workers.c`, `node/chain.c` | `Workers` |
| CPU miner, choice of transactions | `node/miner.c` | `CpuMiner`, `Mempool` |
| transaction pool | `node/mempool.c` | `Mempool`, `Transactions` |
| wallet: transactions, coins, rescan | `wallet/txdb.c`, `wallet/wallet.c` | `Wallet`, `Transactions` |
| node: the callbacks between them | `node/node.c` | `Node` |
| block download from peers | `node/pool.c`, `io/loop.c` | `Pool` |
| address manager | `base/addrman.c` | `AddrMan` |
| lcdb | `deps/` | external: a batch is atomic and durable |

A block comes from a peer or the miner into `btc_chain_add`. It is checked, kept
as an orphan, saved on an alternate chain, or connected, possibly after a
reorganization. Connecting verifies inputs through a coin view, hands the
scripts to the thread pool, appends block and undo record to the flat files and
commits one lcdb batch. After the commit the node tells the transaction pool and
the wallet, which writes batches of its own.

## Modules

**`Blocks`** holds the block tree and the coin arithmetic: what a block consumes
and creates, the undo record, `VerifyInputs` (BIP30 and inputs). A block is
reduced to its net effect on the coins; which blocks fail which rule is given by
the constants `BadPow`, `BadBody`, `BadContext`, `BadWeight` and `BadInputs`,
because the outcome (remembered as invalid or not, before or after saving) is
what the control flow depends on.

**`ChainState`** is `btc_chain_add` and all it calls. Disk state: `index`,
`tips`, `coins`, `undo`, `meta`; memory: `heights`, `tip`, `invalid`, `orphans`.
`job` is the position in the call in progress. An action ends where a batch is
committed, so `Crash` can come between any two batches.

| action | code |
|---|---|
| `AddIgnored`, `AddInvalidChild`, `AddInsane`, `StoreOrphan`, `AddBlock` | `btc_chain_add` up to `btc_chain_connect` |
| `SaveAlternate` | `btc_chain_save_alternate` |
| `SetBestChain`, `ConnectTip`, `ConnectTipFails` | `btc_chain_set_best_chain` |
| `Disconnect`, `Reconnect`, `ReconnectFails` | the loops of `btc_chain_reorganize` |
| `HandleOrphans` | one turn of `btc_chain_handle_orphans` |
| `Crash` | loss of the process, then `btc_chaindb_open` and `btc_chain_open` |

A hash can arrive with three bodies: the genuine one, one that fails a check
marked malleated in `btc_block_check_sanity`, and one with a wrong witness.

**`Ledger`** is what the chain promises: a head that moves one valid block at a
time and the coins of a replay up to it. `ChainState` implements it with
`head <- meta, utxo <- coins`.

**`CoinView`** follows a block transaction by transaction through
`btc_view_spend`, `btc_view_add`, the undo list, `save_view` and
`disconnect_block`, including spends inside a block, and compares it with a
reference that looks only at the history of the chain. Each loop of the code is
a recursive function of the number of turns (`SpendInputs`, `VerifyInputs`,
`PopInputs`, `RevertBlock`), the form that the proofs can follow. That the inputs
of a transaction are distinct, and that only a coinbase has none, are
assumptions: `btc_tx_check_sanity` refuses other transactions (`tx.c:685`,
`tx.c:708`) before a block comes this far.

**`BlockFiles`** has the files as sequences of units, the committed state
(`stored`) and that of the process (`mem`). A call is split at its system
calls: write the block, write the undo record, prune, commit.

**`Workers`** and **`CpuMiner`** take one action per critical section of the
mutex. A thread in `btc_cond_wait` moves on when signalled, or spuriously.

**`Transactions`** declares the transactions that `Mempool` and `Wallet` share:
inputs, outputs, fee, size, locks.

**`Mempool`** and **`Wallet`** have no actions of their own, because nothing
happens to them but what the node does. The pool is a record with the fields of
`btc_mempool_t` (`map`, `spents`, `orphans`, `waiting`, `size`, ...), the wallet
one with the records of its database, and each function of the code is an
operator from a record to a record. A failed `CHECK` sets `aborted`. Where the
code walks a hash table, `order` says in which order it comes out.

| operator | code |
|---|---|
| `Add`, `Insert`, `AddEntry`, `AddOrphan`, `HandleOrphanTxs` | `btc_mempool_add` and what it calls |
| `EvictEntry`, `LimitSize` | `btc_mempool_evict_entry`, `btc_mempool_limit_size` |
| `AddPoolBlock`, `RemovePoolBlock`, `HandleReorg` | the three callbacks from the chain |
| `Assemble` | `btc_miner_assemble` |
| `InsertTx`, `ConfirmTx`, `UnconfirmTx`, `EraseTx`, `RemoveConflicts`, `Abandon` | the functions of `wallet/txdb.c` |
| `AddTxBatches`, `AddBlockBatches`, `RemoveBlockBatches`, `RescanBatches` | the wallet's entry points, as the list of batches each writes |
| `WriteAll` | those batches, one after the other |

**`Node`** extends `ChainState`, `Mempool` and `Wallet` and has the actions.
`ChainStep` is a step of `ChainState` that commits a batch; `call` then holds
the callback it owes (`OnConnect`, `OnDisconnect`), so that a crash can fall
between the two. `NodeCrash` cuts the wallet's list of batches at any place;
`OpenWallet` is `btc_wallet_sync_state` and `btc_wallet_resend`. Between two
calls a peer relays a transaction (`Relay`), the user sends or abandons one
(`Send`, `AbandonTx`). Four history variables note the situations in which a
property is known to be given up: a transaction that `remove_block` could not put
back (`dropped`), a reorganization that has not come to its end (`shaken`), a
block that passed without a look at the orphans (`missed`), and a wallet whose
tip is off the main chain at a restart (`strayed`).

**`Pool`** is block download. The node is a record `s`; each function of
`node/pool.c` is an operator, and each callback of the event loop an action. The
peers are synced nodes of the same program: their answers are put on `wire` when
they are asked, and arrive in order, late or never. A block is named by its
height on the one chain the peers share. `late` divides a round of the loop: data
are read first, then `on_tick` runs, then `on_close` for the sockets that were
closed.

| action | code |
|---|---|
| `Handshake` | `btc_peer_on_connect`, `on_version`, `on_verack`, `btc_pool_on_complete` |
| `Deliver` | `btc_pool_on_inv`, `on_headers`, `on_block`, `on_cmpctblock`, `on_blocktxn` |
| `Tick`, `Timeout` | `btc_pool_on_tick`, `btc_peer_maybe_timeout` |
| `Hangup`, `OnClose` | a lost connection, `btc_pool_on_close` |
| `FallSilent`, `Grow` | a peer that stops answering, a new block on the network |

**`AddrMan`** is the address manager: the map, the fresh and used buckets, the
reference counts, the totals, the vector of random draws, and the file.
`btc_addrman_add` is split where `evict_fresh` looks at the next entry. Times
and attempts are abstracted to what they decide.

| action | code |
|---|---|
| `AddNew`, `AddRefresh`, `AddKnown`, `EvictStale`, `EvictPass`, `EvictOld`, `Insert` | `btc_addrman_add` |
| `MarkAck`, `MarkAckEvict` | `btc_addrman_mark_ack` |
| `Remove`, `GetAddr` | `btc_addrman_remove`, `btc_addrman_getaddr` |
| `Flush`, `Restart` | `btc_addrman_flush`, `btc_addrman_open` |

Definitions whose comment starts with "Slip" are plausible mistakes in the
definition that follows. No specification uses them; each is there to show that
a property notices the mistake.

## Runs

| run | configuration | question | bounds |
|---|---|---|---|
| `chain_reorg` | `ChainReorg.cfg` | do coins, index, undo records and main chain survive reorganizations, failed ones, and crashes, implement `Ledger`, and never lose work; are orphans never stranded? | 11 blocks on four branches, 3 orphans |
| `chain_converge` | `ChainConverge.cfg` | are good blocks never blamed, and does the node reach the best valid chain? | 11 blocks, five of them failing a rule each, 2 orphans |
| `coin_view` | `CoinView.cfg` | are the coins exactly the unspent outputs, and is a block accepted exactly when the history allows it? | 7 transactions, blocks of up to 4, height 6, maturity 2 |
| `files` | `Files.cfg` | do positions lead to their records, and does a crash leave committed records alone? | 6 blocks, files of 3 units, 1 crash |
| `files_lost` | `FilesLost.cfg` | violation, finding 1 | the same |
| `workers_checker` | `WorkersChecker.cfg` | as `btc_checker` uses the pool, do wait and destroy return, at the right time? | 3 threads, batches of 12, 10, 2 and 1 items, slices of 1 and 2 |
| `miner_threads` | `MinerThreads.cfg` | are results and thread counts consistent, do jobs come back, is no wakeup lost? | 3 threads, 2 new tips |
| `miner_stop` | `MinerStop.cfg` | violation, finding 2 | 2 threads, 1 new tip |
| `node` | `Node.cfg` | do the tables of the pool agree, are its inputs there, would the chain take the template, does the wallet follow the chain through reorganizations and crashes? | 6 blocks, 6 transactions, pool of 2, 2 orphans |
| `node_fees` | `NodeFees.cfg` | violation, finding 3 | the same |
| `pool` | `Pool.cfg` | do the maps of requests agree, do the headers lead the blocks, when is an honest peer closed for its answers, does the node catch up? | 2 peers, 5 blocks, 2 checkpoints, 2 faults |
| `addrman` | `AddrMan.cfg` | do buckets, counts, totals and positions agree, and does the file read back? | 3 addresses, 3 fresh buckets of 1, 1 used bucket of 1 |

Why the bounds are enough.

- The reorganization tree has a branch that fails at its last block, one that
  fails in the middle, a transaction confirmed on two branches and a duplicate
  one (BIP30). Three orphans are enough for a chain of orphans, for two under
  different parents, and for the pool to be full and replace one.
- The tree of `chain_converge` has the valid chain p, a2, a3 and the heavier
  p, c2, c3, c4, of which c2 is invalid but only found so when it is connected: a
  crash can fall after the node left a3 for it (observation 9).
- Blocks of four transactions contain parent, child and competitors in any
  order, or one of them twice; height 6 lets a transaction mature, be spent and be confirmed again.
- Files of three units hold one to three records, so they roll over with and
  without a remainder, and the chain of four blocks is long enough for the first
  files to be pruned.
- Three threads give sleeping, running and just woken threads at the same time.
  With twelve items the slice `length / (threads + idle + 1)` is 1, 2, or more than
  `max_batch` (2) and cut to it, depending on how many threads are idle, and with
  one or two items it is 0 and raised to 1.
- The node's tree has a reorganization to a shorter, heavier chain (so that a
  coinbase loses its maturity) and one that fails half way and comes back. Among
  the transactions are parent and child, a double spend in a competing block, a
  spend of a coinbase and one too many for the pool. Two entries are enough for
  the pool to evict a parent with its child. The locks of P and D hold back
  transactions before p1; no reorganization of this tree undoes them.
- At most two blocks are requested of a peer at a time, so `MaxBlockRequest` 3 is
  the smallest limit that an honest exchange stays under, as in the code, where
  the limit is above the largest distance between checkpoints.
- The pool has headers in batches of one, so that a loader can be lost between
  any two of them, two checkpoints, so that the header chain is continued once,
  and two blocks beyond them, fetched with getblocks and as compact blocks. With
  two peers a failing loader has a successor, and each can fail again.
- Buckets of one entry are full at once: every eviction and every move back from
  a used bucket happens. A file of one address is enough because `ReadsBack`
  compares what would be written with what would be read in every state, however
  many addresses are known.

The properties of the wallet are stated for histories in which no restart found
its tip off the main chain (`strayed`, observation 3); the others are explored
too. `addrman` uses symmetry over the addresses; `UsedBucket` is
constant there, so it is sound. No other run does: most check liveness.

Deadlock is not checked where the system may stop: a destroyed thread pool, an
aborted or hanging miner, a node at the network's final height.

### Fairness

- `CallSpec`: a call in progress goes on. It is a function call on one thread.
- `DeliverySpec`: the same, and a genuine block that could be added again and
  again is added at some point (peers announce their chains whenever they
  connect). `Converges` also assumes that crashes come to an end.
- `Workers`: each thread, and the owner inside wait or destroy, goes on when it
  can. The scheduler and the mutex are fair; nothing is assumed about the order
  of wakeups or about spurious ones.
- `CpuMiner`: threads go on, the loop goes on ticking, stop goes on when it can.
  No fairness for spurious wakeups or for the refresh of a job that is a minute
  old.
- `Pool`: `btc_loop_poll` polls every socket and ticks in each round, so what a
  peer sent is read, and ticks and close callbacks run. A peer that has not
  failed answers. Faults need not happen, and there are at most `MaxFaults`.

### Findings

1. `files_lost`: a process that dies after appending to a file and before the
   commit reopens the file with the old position and appends behind the stray
   record. The positions it records from then on are wrong. The model has the
   death of the process only, not a power failure.
2. `miner_stop`: `btc_cpuminer_stop` (`node/miner.c:778`) signals one thread and
   waits for all.
3. `node_fees`: a transaction that a reorganization puts back under a child that
   stayed in the pool gets its own fee as `desc_fee`; when the child is evicted,
   its fee is subtracted all the same (`node/mempool.c:829`), and `btc_get_rate`
   CHECKs that a fee is not negative (`policy.c:53`).

### Observations

Behaviour met while modelling, for which there is no run of its own:

1. `btc_workq_concat` (`io/workers.c:118`) sets the tail to the head of the
   appended list. The checker never appends to a queue that is not empty, so it
   does not meet this.
2. A mining result found for a replaced job is stored with the fields of the new
   one (`node/miner.c:951`); the `CHECK` at `node/miner.c:855` then fails. It is
   the action `TickAbort`.
3. `btc_wallet_sync_state` (`wallet/wallet.c:426`) looks its tip up by hash in
   the index, which also has blocks off the main chain. After a crash in the
   middle of a reorganization the wallet can take the height of a block that is
   no longer on the chain for a common ancestor (`strayed`). It then ignores the
   blocks below that height, and what it confirmed on the old branch stays
   confirmed. Suppose the wallet strayed at a3, whose transaction spends one of
   a2, and the node goes on to b2 and b3. A transaction of b3 takes the place of
   that of a3 in the index by height, so that disconnecting b3 does not bring
   the latter back. When b2 is disconnected, the transaction of a2, recorded at
   the same height, is reverted while its output is still spent, and
   `CHECK(db_get_coin(...))` (`wallet/txdb.c:432`) fails. The balances can be
   wrong too. `WalletFollows`, `BalanceExact` and `WalletChecks` leave these histories
   out.
4. A child inserted in the wallet before its parent leaves the parent's coin
   unspent, and the filter loaded at a restart does not watch the inputs of other
   people's transactions again.
5. `btc_mempool_add_block` and `remove_block` return early when the map is
   empty, without a look at the orphans (`missed`). A transaction that
   `remove_block` cannot put back (it is not standard, or its coinbase input
   is not mature any more) is forgotten, while its children stay in the pool
   (`dropped`). Such a child has an input that does not exist, and can enter a
   template; the block is then refused and `CHECK(btc_chain_add(...))`
   (`node/miner.c:875`) aborts. `InputsAvailable` and `TemplateAccepted` say that
   there is no other way to lose an input. A template can also hold a
   transaction whose coinbase input is immature again, when a reorganization
   ends without `on_reorganize` (`shaken`).
6. `btc_wallet_send` tests `!btc_tx_check_inputs(...)`, which returns -1 on
   failure.
7. A peer that completes its handshake in the round that closes the loader
   becomes the loader before `on_close` of the old one, and its first headers do
   not fit the header chain it inherits (`bereft`); it is closed for "a bad header
   chain" (`node/pool.c:3738`) though it is honest, the chain is reset, and
   download goes on with the next. `HonestPeersStay` says that this is the only
   way, and that it costs at most one peer each time; `HeadersLead` does not
   speak of the header chain meanwhile.
8. `btc_addrman_mark_ack` and `btc_addrman_remove` do not set `needs_flush`, so
   what they change can be lost at a restart. `btc_addrman_add` computes the
   bucket from an entry's first source, so an address never has more than two
   references (`FewRefs`), where `MAX_REFS` is 8.
9. A crash can strand the best chain. The node, on p, a2, a3, hears of the heavier
   p, c2, c3, c4, disconnects down to p and dies. It restarts on p, where a2 and
   a3 are duplicates if they are offered again (`node/chain.c:1921`). c4, which
   was not saved yet, is offered again; now c2 turns out invalid, and the node
   stays on p, since that is the tip this reorganization started from
   (`node/chain.c:1749`). Nothing compares the tip with the index, so a3 stays
   where it is until a block on top of it arrives. `Converges` therefore has two
   outcomes: the tip has the most work for good, or a best block lies in the
   index with more work than the tip, between two calls, again and again.

## Proofs

TLC evaluates the named assumptions the proofs rest on in the runs of the same
modules.

`Blocks_proofs` and `ChainState_proofs` hold for every block tree, every
assignment of failing blocks and every limit on orphans. They assume that
`Prev`, `Height`, `Path` and `Replay` fit together, that work grows along a
branch, that the genesis block has no effect on the coins, that at least one
orphan may be kept, and that a block for which BIP34 is active creates no coin
that exists (the code relies on this when it skips the BIP30 check,
`node/chain.c:1528`).

- `DisconnectInverts`: disconnecting a block with its undo record gives back the
  coins of its parent.
- `Invariance`: `Spec => []IInv`. "The coins are a replay up to the tip" is not
  inductive by itself: a disconnect needs the right undo record (`UndoSound`),
  which was written when the block was connected to the same ancestors; a
  reconnect needs the next block on the path to be a child of the tip, hence
  where the call stands between fork, old tip and target (`JobSound`); going back
  after a failure needs the old chain to be good; and blame needs that indexed
  blocks and orphans passed the first checks (`Screened`). `IInv` is the
  conjunction of these, and is checked by TLC in `chain_reorg`.
- `TypeCorrect`, `CoinsCorrect`, `MainCorrect`, `UndoCorrect`, `InvalidCorrect`,
  `ReorganizationNeverAborts` follow from it.
- `WorkNeverLost`: a call that returns leaves a tip with no less work than it
  found. It needs one more invariant: while a reorganization is under way, what
  it aims at is heavier than the tip it left, and what it goes back to is that
  tip.
- `ImplementsLedger`: every step changes the disk as a step of `Ledger`, or not
  at all.
- `OrphansCorrect`: no orphan is stranded. `OrphansSound` says so only between
  two calls. The inductive `OrphansPlaced` says what happens in between: the
  block being added is not itself an orphan, and an orphan whose parent is
  indexed is the one that `btc_chain_handle_orphans` looks for next.

`BlockFiles_proofs` holds for every block tree, all sizes of records and files,
with and without pruning. It assumes that a record fits into a file, that block
records are not empty and that the genesis block has no undo record. `FilesInv`
says that the numbers in `mem` and in `stored` are in order (`Numbered`: full
files have distinct numbers below that of the current one, no position lies in a
later file, and `max_height` covers every block of its file), that the two are
the same between calls, and that until the process dies in a call the files are
as `mem` has them (`InPlace`). `Numbered` has to hold after crashes too, because
pruning decides by `max_height` alone.

- `PositionsCorrect` (`ReadsOwn`) and `ListedFilesExist` (`IndexedFilesExist`)
  follow from `InPlace`, so they hold until a process dies in a call. Finding 1
  shows that the first does not hold afterwards; nor does the second when the
  process dies between unlinking a file and the commit.
- `PruningCorrect` (`PrunesOldOnly`) and `CommittedCorrect` (`CommittedStays`) are
  action properties that hold through any number of crashes: the first from
  `Numbered`, the second because a file is only appended to or unlinked.

`CoinView_proofs` holds for all transactions and blocks: inputs and outputs are
arbitrary but for what the code checks before (one coinbase, in front; distinct
inputs, at least one), and outputs of different transactions are different.
A block may name a transaction twice; `NoTwice` proves that no such block is
accepted, and reverting relies on that. `CoinsInv` says that the records in the database are the coins of
the history, and of every block on the chain that none of its outputs had a coin
before it and that its undo record lists the coins its inputs consumed, in
order. The proof follows the loops: `VerifyLoop` says what the view and the undo
list are after n transactions of a block, `RevertLoop` the same backwards, and
both judge a view by what saving it would write. Induction over the turns of a
loop goes through the well-founded order of the naturals applied to a set of
numbers (`Naturals`).

- `UnspentCorrect`: the records are exactly the unspent outputs of the chain.
- `UndoListExact`: disconnecting the tip uses up its undo record exactly.
- `AcceptanceExact`: the checks accept a block exactly when the history allows it.

`Workers_proofs` holds for any number of threads and work items. `PoolInv` says
that `idle` counts the threads that wait or were just woken, that `threads`
counts those that have not left, and that the owner is gone only when none is
left. `IdleCountsAlways` and `NoLateWorkAlways` follow. `WaitMeansDoneAlways` needs
`JobsInv`: there is a sequence that the linked list of the queue spells out
(`Listed`), and an owner for each work item that was handed over and not yet
counted off, the queue or one thread (`Owned`), such that `left` counts the items
with an owner and a thread's `length` those it owns. It assumes a finite set of
work items, none of them the null pointer, and batches that are lists of them.

`CpuMiner_proofs` holds for any number of threads and tips. `MinerInv` says
that `active` counts the threads, that `stop` is set exactly while the loop is in
`btc_cpuminer_stop` and then there is neither job nor result, and that a thread
that starts or searches has no result. `NoThreadLeftAlways` and `ResultUnsetAlways` follow.

`AddrMan_proofs` holds for any finite set of addresses and any number and size of
buckets. `AddrInv` says that `rnd` and `pos` are inverse to each other
(`Vector`), that entries are in buckets as their marks say (`Entries`, `Placed`),
that counts are cardinalities (`Counted`, `Totals`), that every holder but one is
the entry's home (`Near`), that buckets are not overfull (`Fits`), where a call
of `btc_addrman_add` stands (`CallSound`), and that a whole file is a snapshot of
such tables (`FileSound`). The last is what makes `Restart` preserve the rest,
and needs that a snapshot reads back. `TablesAlwaysAgree`, `AlwaysReadsBack` and
`AlwaysFewRefs` follow.

Only model-checked:

- all liveness properties, since fairness and `ENABLED` are beyond the prover;
- `Mempool`, `Wallet` and `Node`, which fold over transactions and recurse over
  descendants with operators the prover does not accept in a module with
  theorems;
- `Pool`, whose handlers are long compositions of operators on one record: no
  inductive invariant has been worked out for it.

## Not modelled

In the modelled parts:

- Chain: checkpoints, the rules themselves, the exceptions to BIP30 for blocks
  91842 and 91880, deployments (BIP9) and retargeting (`node/chain.c:652-975`),
  which are functions of the chain of headers.
- Database: failing or short writes, power failures and `fsync`. A reorganization
  deeper than what a pruned node keeps aborts in the code; `BlockFiles`
  disconnects a block only if its records can be read.
- `CoinView`: amounts, scripts, sequence locks.
- `CpuMiner`: coinbases, merkle steps and getwork.
- `Mempool`: what a transaction fails on its own account is a constant.
- `Wallet`: one account; no watch-only keys, frozen coins, start height,
  encryption or fee estimation. Key derivation and signing are functions on data.
- `Pool`: transaction relay, inbound peers, bans and ban scores, bloom filters,
  merkle blocks, `block_mode` 1. `Pool` and `Node` are not composed: the product
  is out of TLC's reach. Sockets and buffers of the event loop are left out.
- `AddrMan`: bans and local addresses, two tables that share nothing with the
  rest.

And as a whole:

- RPC, HTTP, JSON: requests read the state of the other parts or call operations
  that are modelled there.
- Time data: the median of at most 200 samples, a pure function.
- Messages, scripts, encodings, cryptography, big integers: pure functions over
  large data, most with test vectors of their own. The models abstract them to
  "passes" or "fails".
- Client, configuration, logging: input and output.
