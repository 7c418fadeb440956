------------------------------- MODULE Mempool -------------------------------
(***************************************************************************)
(* The transaction pool of src/node/mempool.c: the entries and the index   *)
(* of the outpoints they spend, orphan transactions and the parents they   *)
(* wait for, the filter of rejected hashes, the fee and size every entry   *)
(* carries for its descendants, and the limit on the total size.           *)
(*                                                                         *)
(* The pool is a value m, the chain it looks at a value c (its coins and   *)
(* its height), and every function of the code an operator that returns    *)
(* the new pool: adding a transaction can resolve orphans, which are added *)
(* in turn and can push the pool over its limit, all within one call.  The *)
(* module Node makes actions of them.                                      *)
(*                                                                         *)
(* The network requires standard transactions, so that an orphan is never  *)
(* over the weight limit of check_orphan.                                  *)
(***************************************************************************)
EXTENDS Transactions

CONSTANTS
    Fee,          \* inputs less outputs
    Size,         \* virtual size
    LockTime,     \* tx->locktime, a height; 0 for none
    RelLock,      \* BIP68 lock of the first input, in blocks; 0 for none
    Fault,        \* the check a transaction fails on its own account
    Maturity,     \* BTC_COINBASE_MATURITY
    MaxAncestors, \* BTC_MEMPOOL_MAX_ANCESTORS
    MaxSize,      \* BTC_MEMPOOL_MAX_SIZE
    Threshold,    \* BTC_MEMPOOL_THRESHOLD
    MaxOrphanTxs, \* BTC_MEMPOOL_MAX_ORPHANS
    MaxBlockSize  \* BTC_MAX_POLICY_BLOCK_WEIGHT, in units of Size

(***************************************************************************)
(* What can be wrong with a transaction whatever the state of the node, by *)
(* what it does to the reject filter: "early" and "late" failures, before  *)
(* and after the coins are known, are remembered; "premature" and "witness" *)
(* ones, at the same two places, are marked malleated and are not; nor is a *)
(* failing script of a transaction with a witness.                         *)
(***************************************************************************)
Faults == {"none", "early", "premature", "late", "witness", "script"}

ASSUME MempoolAssumption ==
    /\ Fault \in [Tx -> Faults]
    /\ Size \in [Tx -> Nat \ {0}]
    /\ Threshold <= MaxSize /\ MaxOrphanTxs > 0

NoCoin == -1

EmptyPool ==
    [map |-> <<>>,       \* mp->map: hash -> entry
     spents |-> <<>>,    \* mp->spents: outpoint -> hash of the entry
     size |-> 0,         \* mp->size
     orphans |-> <<>>,   \* mp->orphans: hash -> orphan->missing
     waiting |-> <<>>,   \* mp->waiting: missing hash -> set of orphans
     rejects |-> {},     \* mp->rejects
     sent |-> <<>>,      \* calls of on_tx made by the running call, in order
     aborted |-> FALSE]  \* a CHECK has failed

Has(m, t) == t \in DOMAIN m.map

Check(m, cond) == [m EXCEPT !.aborted = @ \/ ~cond]

-----------------------------------------------------------------------------
(* Coins.                                                                  *)

\* The output a prevout names exists in a pool transaction.
InPool(m, o) == Has(m, o[1]) /\ o[2] < Outputs[o[1]]

OnChain(c, o) == o \in DOMAIN c.coins /\ c.coins[o] # NoCoin

\* btc_mempool_view: prevout -> height, -1 for outputs of pool transactions.
View(m, c, t) ==
    [o \in {o \in Prevouts(t) : InPool(m, o) \/ OnChain(c, o)} |->
        IF InPool(m, o) THEN -1 ELSE c.coins[o]]

IsCoinbase(o) == o[1] \in Coinbase

\* btc_chain_has_coins.
HasCoins(c, t) == \E i \in 0 .. Outputs[t] - 1 : OnChain(c, <<t, i>>)

\* btc_tx_is_final for the block on top of the chain; no input is final.
IsFinal(c, t) == LockTime[t] = 0 \/ LockTime[t] < c.height + 1

\* btc_chain_verify_locks.
VerifyLocks(c, t, view) ==
    RelLock[t] = 0 \/
        LET o == Head(Inputs[t])
            known == o \in DOMAIN view /\ view[o] # -1
        IN  (IF known THEN view[o] ELSE c.height + 1) + RelLock[t] - 1 < c.height + 1

\* Coinbases among the coins are of age in the next block.
Mature(c, t, view) ==
    \A o \in Prevouts(t) \cap DOMAIN view :
        IsCoinbase(o) => c.height + 1 >= view[o] + Maturity

-----------------------------------------------------------------------------
(* Entries.                                                                *)

\* traverse_ancestors: depth first, given up once the limit is exceeded.
RECURSIVE Traverse(_, _, _)
Traverse(m, t, seen) ==
    FoldLeft(LAMBDA s, o :
                IF Cardinality(s) > MaxAncestors \/ ~Has(m, o[1]) \/ o[1] \in s
                THEN s
                ELSE IF Cardinality(s \cup {o[1]}) > MaxAncestors THEN s \cup {o[1]}
                ELSE Traverse(m, o[1], s \cup {o[1]}),
             seen, Inputs[t])

Ancestors(m, t) == Traverse(m, t, {})

\* btc_mempool_track_entry, then update_ancestors with add_fee.
Track(m, t, view) ==
    LET entry == [coinbase |-> \E o \in Prevouts(t) : IsCoinbase(o),
                  desc_fee |-> Fee[t], desc_size |-> Size[t]]
        ancestors == Ancestors(m, t)
        map == With(m.map, t, entry)
    IN  [Check(m, ~Has(m, t)) EXCEPT
            !.map = [p \in DOMAIN map |->
                        IF p \in ancestors
                        THEN [map[p] EXCEPT !.desc_fee = @ + Fee[t],
                                            !.desc_size = @ + Size[t]]
                        ELSE map[p]],
            !.spents = [o \in DOMAIN @ \cup Prevouts(t) |->
                           IF o \in Prevouts(t) THEN t ELSE @[o]],
            !.size = @ + Size[t]]

\* Slip: the total size is left as it is.
RemoveEntryKeepsSize(m, t) ==
    [m EXCEPT !.map = Without(@, {t}), !.spents = Without(@, Prevouts(t))]

\* btc_mempool_untrack_entry.
RemoveEntry(m, t) ==
    [Check(m, Has(m, t) /\ Prevouts(t) \subseteq DOMAIN m.spents) EXCEPT
        !.map = Without(@, {t}),
        !.spents = Without(@, Prevouts(t)),
        !.size = @ - Size[t]]

RECURSIVE RemoveSpenders(_, _)
RemoveSpenders(m, t) ==
    FoldLeft(LAMBDA n, i :
                LET o == <<t, i - 1>>
                IN  IF o \in DOMAIN n.spents
                    THEN RemoveEntry(RemoveSpenders(n, n.spents[o]), n.spents[o])
                    ELSE n,
             m, [i \in 1 .. Outputs[t] |-> i])

\* update_ancestors with remove_fee: the descendants' share goes with it.
Discount(m, t) ==
    LET ancestors == Ancestors(m, t)
    IN  [m EXCEPT !.map =
            [p \in DOMAIN @ |->
                IF p \in ancestors
                THEN [@[p] EXCEPT !.desc_fee = @ - m.map[t].desc_fee,
                                  !.desc_size = @ - m.map[t].desc_size]
                ELSE @[p]]]

\* Slip: the transactions that spend the evicted one's outputs stay.
EvictAlone(m, t) == RemoveEntry(Discount(m, t), t)

EvictEntry(m, t) == RemoveEntry(Discount(RemoveSpenders(m, t), t), t)

RemoveDoubleSpends(m, t) ==
    FoldLeft(LAMBDA n, o : IF o \in DOMAIN n.spents THEN EvictEntry(n, n.spents[o]) ELSE n,
             m, Inputs[t])

HasDependencies(m, t) == \E o \in Prevouts(t) : Has(m, o[1])

\* use_desc and cmp_rate: the rate an entry is ranked by, as fee and size.
RankedBy(m, t) ==
    LET e == m.map[t]
    IN  IF e.desc_fee * Size[t] > Fee[t] * e.desc_size
        THEN <<e.desc_fee, e.desc_size>>
        ELSE <<Fee[t], Size[t]>>

LowerRate(m, t, u) ==
    LET x == RankedBy(m, t)
        y == RankedBy(m, u)
    IN  x[1] * y[2] < x[2] * y[1]

\* The entries in the order the hash table yields them.
InOrder(m, order) == SelectSeq(order, LAMBDA t : Has(m, t))

\* The loop over the heap; a tie falls to the first in hash order.
RECURSIVE EvictLowest(_)
EvictLowest(s) ==
    IF s.queue = <<>> \/ s.mp.size <= Threshold THEN s.mp
    ELSE LET i == Min({k \in DOMAIN s.queue : \A j \in DOMAIN s.queue :
                          ~LowerRate(s.mp, s.queue[j], s.queue[k])})
         IN  EvictLowest([mp |-> EvictEntry(s.mp, s.queue[i]), queue |-> RemoveAt(s.queue, i)])

\* btc_mempool_limit_size; env.old: entries older than BTC_MEMPOOL_EXPIRY_TIME.
LimitSize(m, env) ==
    IF m.size <= MaxSize THEN m
    ELSE EvictLowest(
            FoldLeft(LAMBDA s, t :
                        IF ~Has(s.mp, t) \/ HasDependencies(s.mp, t) THEN s
                        ELSE IF t \in env.old THEN [s EXCEPT !.mp = EvictEntry(@, t)]
                        ELSE [s EXCEPT !.queue = Append(@, t)],
                     [mp |-> m, queue |-> <<>>], InOrder(m, env.order)))

-----------------------------------------------------------------------------
(* Orphans.                                                                *)

\* The sets of orphans that wait for a parent, without t; empty ones go.
Unwait(waiting, parents, t) ==
    [h \in {h \in DOMAIN waiting : ~(h \in parents /\ waiting[h] \subseteq {t})} |->
        IF h \in parents THEN waiting[h] \ {t} ELSE waiting[h]]

Parents(t) == {o[1] : o \in Prevouts(t)}

RemoveOrphan(m, t) ==
    IF t \notin DOMAIN m.orphans THEN m
    ELSE [m EXCEPT !.orphans = Without(@, {t}),
                   !.waiting = Unwait(@, Parents(t), t)]

\* btc_mempool_limit_orphans; the random victim is the first of env.order.
LimitOrphans(m, env) ==
    IF Cardinality(DOMAIN m.orphans) < MaxOrphanTxs THEN m
    ELSE RemoveOrphan(m, Head(SelectSeq(env.order, LAMBDA t : t \in DOMAIN m.orphans)))

CheckOrphan(m, t, view) ==
    \A o \in Prevouts(t) \ DOMAIN view : o[1] \notin m.rejects /\ ~Has(m, o[1])

AddOrphan(m, t, view, env) ==
    LET n == LimitOrphans(m, env)
        missing == {o[1] : o \in Prevouts(t) \ DOMAIN view}
    IN  [Check(n, t \notin DOMAIN n.orphans) EXCEPT
            !.orphans = With(@, t, Cardinality(missing)),
            !.waiting = [h \in DOMAIN @ \cup missing |->
                (IF h \in DOMAIN @ THEN @[h] ELSE {}) \cup (IF h \in missing THEN {t} ELSE {})]]

\* btc_mempool_resolve_orphans: those that wait for nothing else leave.
Resolve(m, parent) ==
    LET set == IF parent \in DOMAIN m.waiting THEN m.waiting[parent] ELSE {}
        resolved == {t \in set \cap DOMAIN m.orphans : m.orphans[t] = 1}
    IN  [mp |-> [Check(m, set \subseteq DOMAIN m.orphans) EXCEPT
                    !.orphans = [t \in DOMAIN @ \ resolved |->
                                    IF t \in set THEN @[t] - 1 ELSE @[t]],
                    !.waiting = Without(@, {parent})],
         resolved |-> resolved]

-----------------------------------------------------------------------------
(* Adding a transaction.                                                   *)

\* How btc_mempool_insert ends: the pool, the return value, and whether
\* btc_mempool_add puts the hash into the reject filter.
Accepted(m) == [mp |-> m, ok |-> TRUE, reject |-> FALSE]
Refused(m) == [mp |-> m, ok |-> FALSE, reject |-> TRUE]
Ignored(m) == [mp |-> m, ok |-> FALSE, reject |-> FALSE]

\* btc_mempool_exists.
Exists(m, t) == t \in DOMAIN m.orphans \/ Has(m, t)

IsDoubleSpend(m, t) == Prevouts(t) \cap DOMAIN m.spents # {}

RECURSIVE HandleOrphanTxs(_, _, _, _)

\* The trim to the maximum size, which can push out t itself.
Kept(m, t, over) == IF over /\ ~Has(m, t) THEN Refused(m) ELSE Accepted(m)

Trim(m, t, env) == Kept(LimitSize(m, env), t, m.size > MaxSize)

\* btc_mempool_add_entry and what btc_mempool_insert does after it.
AddEntry(m, c, t, view, env) ==
    Trim(HandleOrphanTxs([Track(m, t, view) EXCEPT !.sent = Append(@, t)], c, t, env),
         t, env)

\* btc_mempool_insert and btc_mempool_verify, in the order of their checks.
Insert(m, c, t, env) ==
    LET view == View(m, c, t)
    IN  IF Fault[t] = "premature" THEN Ignored(m)
        ELSE IF \/ Fault[t] = "early"
                \/ ~IsFinal(c, t)
                \/ Exists(m, t)
                \/ HasCoins(c, t)
                \/ IsDoubleSpend(m, t)
             THEN Refused(m)
        ELSE IF DOMAIN view # Prevouts(t)
             THEN IF CheckOrphan(m, t, view) THEN Accepted(AddOrphan(m, t, view, env))
                  ELSE Refused(m)
        ELSE IF ~Mature(c, t, view) \/ ~VerifyLocks(c, t, view) THEN Refused(m)
        ELSE IF Fault[t] = "witness" THEN Ignored(m)
        ELSE IF Fault[t] = "late" \/ Cardinality(Ancestors(m, t)) + 1 > MaxAncestors
             THEN Refused(m)
        ELSE IF Fault[t] = "script" THEN Ignored(m)
        ELSE AddEntry(m, c, t, view, env)

Remember(r, t) == IF r.reject THEN [r EXCEPT !.mp.rejects = @ \cup {t}] ELSE r

\* btc_mempool_add.
Add(m, c, t, env) == Remember(Insert(m, c, t, env), t)

\* What ends as an orphan again is dropped.
Unorphan(r, t) == IF r.ok THEN RemoveOrphan(r.mp, t) ELSE r.mp

\* btc_mempool_handle_orphans: what the parent resolves is added.
HandleOrphanTxs(m, c, parent, env) ==
    LET r == Resolve(m, parent)
    IN  FoldLeft(LAMBDA n, t : Unorphan(Add(n, c, t, env), t),
                 r.mp, SelectSeq(env.order, LAMBDA t : t \in r.resolved))

-----------------------------------------------------------------------------
(* Blocks.                                                                 *)

\* Slip: orphans whose parent the block confirms are not looked at.
AddPoolBlockLeavesOrphans(m, c, txs, env) ==
    LET n == FoldLeft(LAMBDA p, t :
                IF Has(p, t) THEN RemoveEntry(p, t)
                ELSE RemoveDoubleSpends(RemoveOrphan(p, t), t),
                m, Reverse(txs))
    IN  IF DOMAIN m.map = {} THEN m ELSE [n EXCEPT !.rejects = {}]

\* btc_mempool_add_block, from the last transaction to the second.
AddPoolBlock(m, c, txs, env) ==
    IF DOMAIN m.map = {} THEN m
    ELSE LET n == FoldLeft(LAMBDA p, t :
                     IF Has(p, t) THEN RemoveEntry(p, t)
                     ELSE HandleOrphanTxs(RemoveDoubleSpends(RemoveOrphan(p, t), t), c, t, env),
                     m, Reverse(txs))
         IN  [n EXCEPT !.rejects = {}]

\* btc_mempool_remove_block: back into the pool, in the order of the block.
RemovePoolBlock(m, c, txs, env) ==
    IF DOMAIN m.map = {} THEN m
    ELSE LET n == FoldLeft(LAMBDA p, t : IF Has(p, t) THEN p ELSE Insert(p, c, t, env).mp,
                           m, txs)
         IN  [n EXCEPT !.rejects = {}]

\* Slip: only the locktime is looked at again.
HandleReorgFinalOnly(m, c, env) ==
    FoldLeft(LAMBDA n, t : IF Has(n, t) /\ ~IsFinal(c, t) THEN EvictEntry(n, t) ELSE n,
             m, InOrder(m, env.order))

\* btc_mempool_handle_reorg.
HandleReorg(m, c, env) ==
    FoldLeft(LAMBDA n, t :
                IF ~Has(n, t) THEN n
                ELSE LET view == View(n, c, t)
                     IN  IF \/ ~IsFinal(c, t)
                            \/ RelLock[t] # 0 /\ ~VerifyLocks(c, t, view)
                            \/ n.map[t].coinbase /\ ~Mature(c, t, view)
                         THEN EvictEntry(n, t)
                         ELSE n,
             m, InOrder(m, env.order))

-----------------------------------------------------------------------------
(* btc_miner_assemble (src/node/miner.c): the transactions of a template.  *)

\* btc_get_rate and cmp_rate of the miner.
Rate(fee, size) == IF size = 0 THEN 0 ELSE (fee * 1000) \div size

TemplateRate(m, t) ==
    Max({Rate(Fee[t], Size[t]), Rate(m.map[t].desc_fee, m.map[t].desc_size)})

\* The queue holds what depends on nothing outside the template, and loses
\* what it yields whether or not that goes into the template.
RECURSIVE Fill(_, _, _, _)
Fill(m, c, queue, txs) ==
    IF queue = <<>> THEN txs
    ELSE LET best == {i \in DOMAIN queue : \A j \in DOMAIN queue :
                         TemplateRate(m, queue[j]) <= TemplateRate(m, queue[i])}
             i == Min(best)
             t == queue[i]
             rest == RemoveAt(queue, i)
             full == FoldLeft(LAMBDA n, u : n + Size[u], Size[t], txs) > MaxBlockSize
             ready == {u \in DOMAIN m.map \ (Range(txs) \cup {t}) :
                          /\ t \in Parents(u)
                          /\ Parents(u) \cap DOMAIN m.map \subseteq Range(txs) \cup {t}}
         IN  IF ~IsFinal(c, t) \/ full THEN Fill(m, c, rest, txs)
             ELSE Fill(m, c, rest \o SetToSeq(ready), Append(txs, t))

Assemble(m, c, order) ==
    Fill(m, c, SelectSeq(InOrder(m, order), LAMBDA t : ~HasDependencies(m, t)), <<>>)
=============================================================================
