------------------------------ MODULE CoinView ------------------------------
(***************************************************************************)
(* The coins of a chain, transaction by transaction: how src/view.c        *)
(* collects the effect of a block in a coin view and an undo list, how     *)
(* src/node/chain.c checks the inputs against it, and how                  *)
(* src/node/chaindb.c commits and reverts it.  The module Blocks uses the  *)
(* net effect of a block only; here inputs can consume outputs of the same *)
(* block, and a transaction can be confirmed again once its coins are gone *)
(* (BIP34 is not active, so verify_duplicates runs on every block).        *)
(***************************************************************************)
EXTENDS Integers, SequencesExt

CONSTANTS
    Tx,         \* transactions
    Coinbase,   \* those that can be the first of a block
    Outpoint,
    Inputs,     \* the outpoints a transaction consumes, in order
    Outputs,    \* the spendable outputs of a transaction
    Candidates, \* the blocks that are offered: sequences of transactions
    Maturity,   \* BTC_COINBASE_MATURITY
    MaxHeight   \* bound on the length of the chain

ASSUME TxAssumption ==
    /\ Coinbase \subseteq Tx
    /\ Inputs \in [Tx -> Seq(Outpoint)]
    /\ Outputs \in [Tx -> SUBSET Outpoint]
    /\ \A t \in Tx : Inputs[t] = <<>> <=> t \in Coinbase
    /\ \A t \in Tx : \A i, j \in DOMAIN Inputs[t] : Inputs[t][i] = Inputs[t][j] => i = j
    /\ \A s, t \in Tx : s # t => Outputs[s] \cap Outputs[t] = {}
    /\ \A b \in Candidates :
            /\ b \in Seq(Tx) /\ b # <<>>
            /\ \A i \in DOMAIN b : b[i] \in Coinbase <=> i = 1

NoCoin == [height |-> -1]

VARIABLES
    db,     \* the coin records: height and coinbase flag, or NoCoin
    chain   \* the main chain: the transactions and the undo record of a block

vars == <<db, chain>>

Init == db = [o \in Outpoint |-> NoCoin] /\ chain = <<>>

-----------------------------------------------------------------------------
(***************************************************************************)
(* btc_view_t: the coins touched so far, with their spent flag.  A loop    *)
(* over the inputs or the transactions of a block carries the view, the    *)
(* undo list and whether everything went well so far; its state after i    *)
(* turns is written as a recursive function of i.                          *)
(***************************************************************************)
EmptyView == [o \in {} |-> NoCoin]

Put(view, o, coin, spent) ==
    [x \in DOMAIN view \cup {o} |->
        IF x = o THEN [coin |-> coin, spent |-> spent] ELSE view[x]]

\* The coin in the view, or else the one read_coin finds in the database.
Lookup(view, o) ==
    IF o \in DOMAIN view THEN view[o]
    ELSE [coin |-> db[o], spent |-> db[o] = NoCoin]

\* Slip: coins that are in the view already get no undo coin.
SpendInputFromDisk(s, o) ==
    LET e == Lookup(s.view, o)
    IN  IF s.ok /\ ~e.spent
        THEN [ok |-> TRUE, view |-> Put(s.view, o, e.coin, TRUE),
              undo |-> IF o \in DOMAIN s.view THEN s.undo ELSE Append(s.undo, e.coin)]
        ELSE [s EXCEPT !.ok = FALSE]

\* One turn of the loop of btc_view_spend.
SpendInput(s, o) ==
    LET e == Lookup(s.view, o)
    IN  IF s.ok /\ ~e.spent
        THEN [ok |-> TRUE, view |-> Put(s.view, o, e.coin, TRUE),
              undo |-> Append(s.undo, e.coin)]
        ELSE [s EXCEPT !.ok = FALSE]

\* btc_view_spend.
SpendInputs(s, ins) ==
    LET after[i \in 0 .. Len(ins)] ==
            IF i = 0 THEN s ELSE SpendInput(after[i - 1], ins[i])
    IN  after[Len(ins)]

\* btc_view_add: overwrite the entries of the outputs of t.
AddOutputs(view, t, height, spent) ==
    [o \in DOMAIN view \cup Outputs[t] |->
        IF o \in Outputs[t]
        THEN [coin |-> [height |-> height, coinbase |-> t \in Coinbase],
              spent |-> spent]
        ELSE view[o]]

\* The part of btc_tx_check_inputs that depends on the coins.
Mature(view, t, height) ==
    \A i \in DOMAIN Inputs[t] :
        LET c == view[Inputs[t][i]].coin
        IN  c.coinbase => height - c.height >= Maturity

ConnectTx(s, t, height) ==
    LET r == SpendInputs(s, Inputs[t])
    IN  IF r.ok /\ Mature(r.view, t, height)
        THEN [r EXCEPT !.view = AddOutputs(r.view, t, height, FALSE)]
        ELSE [r EXCEPT !.ok = FALSE]

\* The loop of btc_chain_verify_inputs, for a block on top of the chain.
VerifyInputs(txs) ==
    LET after[i \in 0 .. Len(txs)] ==
            IF i = 0 THEN [ok |-> TRUE, view |-> EmptyView, undo |-> <<>>]
            ELSE ConnectTx(after[i - 1], txs[i], Len(chain) + 1)
    IN  after[Len(txs)]

\* btc_chaindb_has_coins: some output of t is in the database.
HasCoins(t) == \E o \in Outputs[t] : db[o] # NoCoin

\* Slip: BIP30 is not enforced.
VerifyNoDuplicates(txs) == TRUE

VerifyDuplicates(txs) == \A i \in DOMAIN txs : ~HasCoins(txs[i])

\* btc_chaindb_save_view: spent coins are deleted, the others written.
SaveView(view) ==
    [o \in Outpoint |->
        IF o \notin DOMAIN view THEN db[o]
        ELSE IF view[o].spent THEN NoCoin ELSE view[o].coin]

\* btc_chain_verify_context, then btc_chaindb_save.  The spent flag is not
\* part of a coin on disk, so the undo record holds coins that are unspent.
Connect(txs) ==
    /\ Len(chain) < MaxHeight
    /\ VerifyDuplicates(txs)
    /\ LET r == VerifyInputs(txs)
       IN  /\ r.ok
           /\ db' = SaveView(r.view)
           /\ chain' = Append(chain, [txs |-> txs, undo |-> r.undo])

-----------------------------------------------------------------------------
\* One turn of the inner loop of btc_chaindb_disconnect_block.
PopInput(s, o) ==
    IF s.undo = <<>> THEN [s EXCEPT !.ok = FALSE]
    ELSE [s EXCEPT !.view = Put(s.view, o, Last(s.undo), FALSE),
                   !.undo = Front(s.undo)]

\* The inner loop: last input first.
PopInputs(s, ins) ==
    LET after[i \in 0 .. Len(ins)] ==
            IF i = 0 THEN s ELSE PopInput(after[i - 1], ins[Len(ins) + 1 - i])
    IN  after[Len(ins)]

RevertTx(s, t, height) ==
    LET r == PopInputs(s, Inputs[t])
    IN  [r EXCEPT !.view = AddOutputs(r.view, t, height, TRUE)]

\* Slip: the transactions are visited first to last.
RevertBlockForward(txs, undo, height) ==
    LET after[i \in 0 .. Len(txs)] ==
            IF i = 0 THEN [ok |-> TRUE, view |-> EmptyView, undo |-> undo]
            ELSE RevertTx(after[i - 1], txs[i], height)
    IN  after[Len(txs)]

\* The loop of btc_chaindb_disconnect_block: last transaction first.
RevertBlock(txs, undo, height) ==
    LET after[i \in 0 .. Len(txs)] ==
            IF i = 0 THEN [ok |-> TRUE, view |-> EmptyView, undo |-> undo]
            ELSE RevertTx(after[i - 1], txs[Len(txs) + 1 - i], height)
    IN  after[Len(txs)]

Disconnect ==
    /\ chain # <<>>
    /\ db' = SaveView(RevertBlock(Last(chain).txs, Last(chain).undo, Len(chain)).view)
    /\ chain' = Front(chain)

Next == Disconnect \/ \E txs \in Candidates : Connect(txs)

Spec == Init /\ [][Next]_vars

-----------------------------------------------------------------------------
(***************************************************************************)
(* The reference: what the chain says about an outpoint.                   *)
(***************************************************************************)

\* The transactions of the chain in order, each with its height.
History(c) ==
    FlattenSeq([h \in DOMAIN c |->
        [i \in DOMAIN c[h].txs |-> [tx |-> c[h].txs[i], height |-> h]]])

Consumes(t, o) == o \in Range(Inputs[t])

\* o is unspent after the first n transactions of the history: one of them
\* creates it and none from there on consumes it.
UnspentAt(hist, n, o, p) ==
    /\ p \in 1 .. n
    /\ o \in Outputs[hist[p].tx]
    /\ \A q \in p + 1 .. n : o \notin Outputs[hist[q].tx] /\ ~Consumes(hist[q].tx, o)

CoinOf(hist, n, o) ==
    LET created == {p \in 1 .. n : UnspentAt(hist, n, o, p)}
    IN  IF created = {} THEN NoCoin
        ELSE LET p == CHOOSE p \in created : TRUE
             IN  [height |-> hist[p].height, coinbase |-> hist[p].tx \in Coinbase]

Coins(hist, n) == [o \in Outpoint |-> CoinOf(hist, n, o)]

\* The coin records are the outputs on the main chain that no transaction on
\* it has consumed, whatever blocks were connected and disconnected before.
UnspentExactly ==
    LET hist == History(chain)
    IN  \A o \in Outpoint : db[o] = CoinOf(hist, Len(hist), o)

\* "Undo coins should be empty": disconnecting the tip finds a coin in the
\* undo record for every input and leaves none over.
UndoExact ==
    chain # <<>> =>
        LET r == RevertBlock(Last(chain).txs, Last(chain).undo, Len(chain))
        IN  r.ok /\ r.undo = <<>>

\* Checking a block and refusing it is the same as looking at the history:
\* every input is unspent at its place, coinbases are mature, and no
\* transaction has coins left from before the block.
AcceptsExactly ==
    \A txs \in Candidates :
        LET old  == History(chain)
            hist == History(Append(chain, [txs |-> txs, undo |-> <<>>]))
            spends(n) ==
                \A o \in Range(Inputs[hist[n].tx]) :
                    LET c == CoinOf(hist, n - 1, o)
                    IN  /\ c # NoCoin
                        /\ c.coinbase => (Len(chain) + 1) - c.height >= Maturity
        IN  (VerifyDuplicates(txs) /\ VerifyInputs(txs).ok) <=>
                /\ \A i \in DOMAIN txs : \A o \in Outputs[txs[i]] :
                        CoinOf(old, Len(old), o) = NoCoin
                /\ \A n \in Len(old) + 1 .. Len(hist) : spends(n)

-----------------------------------------------------------------------------
Coin == [height : Nat, coinbase : BOOLEAN]

\* The coins that the inputs of the block b on top of the chain c consume, in
\* order, transaction by transaction.
Consumed(c, b) ==
    [k \in DOMAIN b.txs |->
        [j \in DOMAIN Inputs[b.txs[k]] |->
            CoinOf(History(Append(c, b)), Len(History(c)) + k - 1, Inputs[b.txs[k]][j])]]

\* What makes the block b on top of the chain c revertible: none of its
\* outputs had a coin before, and its undo record is what it consumed.
Revertible(c, b) ==
    /\ \A i \in DOMAIN b.txs : \A o \in Outputs[b.txs[i]] :
            CoinOf(History(c), Len(History(c)), o) = NoCoin
    /\ Consumed(c, b) \in Seq(Seq(Coin))
    /\ b.undo = FlattenSeq(Consumed(c, b))

CoinsInv ==
    /\ chain \in Seq([txs : Candidates, undo : Seq(Coin)])
    /\ db = Coins(History(chain), Len(History(chain)))
    /\ \A h \in 1 .. Len(chain) : Revertible(SubSeq(chain, 1, h - 1), chain[h])
=============================================================================
