---------------------------- MODULE Transactions ----------------------------
(***************************************************************************)
(* The transactions that the pool of src/node/mempool.c and the wallet of  *)
(* src/wallet/ handle, and the keyed stores both are built from.  An       *)
(* outpoint is the pair of a hash and an index, counted from 0.            *)
(***************************************************************************)
EXTENDS Integers, Sequences, SequencesExt, FiniteSets, FiniteSetsExt

CONSTANTS
    Tx,           \* transactions, coinbases excluded
    Inputs,       \* the prevouts of a transaction, in order
    Outputs,      \* the number of its outputs
    Coinbase      \* hashes of coinbase transactions

ASSUME TransactionAssumption ==
    /\ Tx \cap Coinbase = {}
    /\ DOMAIN Inputs = Tx
    /\ Outputs \in [Tx \cup Coinbase -> Nat]
    /\ \A t \in Tx : Inputs[t] # <<>> /\ t \notin {Inputs[t][i][1] : i \in DOMAIN Inputs[t]}

Prevouts(t) == IF t \in Coinbase THEN {} ELSE Range(Inputs[t])

\* A store without the keys ks, and one with the value v at k.
Without(f, ks) == [x \in DOMAIN f \ ks |-> f[x]]
With(f, k, v) == [x \in DOMAIN f \cup {k} |-> IF x = k THEN v ELSE f[x]]
=============================================================================
