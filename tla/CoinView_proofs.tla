--------------------------- MODULE CoinView_proofs ---------------------------
(***************************************************************************)
(* The coin database holds exactly the unspent outputs of the main chain,  *)
(* for every set of transactions and every sequence of blocks connected    *)
(* and disconnected; the undo record of a block is what reverting it       *)
(* needs; and a block is accepted exactly when the history says so.        *)
(***************************************************************************)
EXTENDS CoinView, SequenceTheorems, WellFoundedInduction, TLAPS

\* A set that holds 0, and n + 1 whenever it holds n, holds all naturals.
LEMMA Naturals ==
  ASSUME NEW S, 0 \in S, \A n \in Nat : n \in S => n + 1 \in S
  PROVE  \A n \in Nat : n \in S
<1> SUFFICES ASSUME Nat \ S # {} PROVE FALSE
  BY Zenon
<1>1. PICK x \in Nat \ S : \A y \in Nat \ S : ~ (<<y, x>> \in OpToRel(<, Nat))
  BY Zenon, NatLessThanWellFounded, WFMin
<1>2. x \in Nat /\ x # 0 /\ x - 1 \in Nat
  <2>1. x \in Nat /\ x \notin S
    BY Zenon, <1>1
  <2> QED
    BY <2>1
<1>3. \A y \in Nat : y < x => <<y, x>> \in OpToRel(<, Nat)
  BY Zenon, <1>1 DEF OpToRel
<1>4. x - 1 \in S
  <2>1. x - 1 < x
    BY <1>2
  <2> QED
    BY Zenon, <1>1, <1>2, <1>3, <2>1
<1>5. (x - 1) + 1 = x
  OBVIOUS
<1> QED
  BY Zenon, <1>1, <1>2, <1>4, <1>5

-----------------------------------------------------------------------------
(* Sequences, and flattening.                                              *)

LEMMA SeqOfFun ==
  ASSUME NEW S, NEW n \in Nat, NEW f \in [1 .. n -> S]
  PROVE  f \in Seq(S) /\ Len(f) = n
  OBVIOUS

LEMMA FrontFacts ==
  ASSUME NEW S, NEW u \in Seq(S), Len(u) > 0
  PROVE  /\ Front(u) \in Seq(S) /\ Len(Front(u)) = Len(u) - 1
         /\ \A k \in 1 .. Len(u) - 1 : Front(u)[k] = u[k]
<1>1. PICK n \in Nat : n = Len(u) - 1
  OBVIOUS
<1>2. \A i \in 1 .. n : u[i] \in S
  BY <1>1
<1>3. /\ SubSeq(u, 1, n) \in Seq(S) /\ Len(SubSeq(u, 1, n)) = n
      /\ \A k \in 1 .. n : SubSeq(u, 1, n)[k] = u[k]
  BY <1>2
<1> QED
  BY Zenon, <1>1, <1>3 DEF Front

LEMMA Concat ==
  ASSUME NEW S, NEW a \in Seq(S), NEW b \in Seq(S)
  PROVE  /\ a \o b \in Seq(S) /\ Len(a \o b) = Len(a) + Len(b)
         /\ \A i \in 1 .. Len(a) : (a \o b)[i] = a[i]
         /\ \A i \in 1 .. Len(b) : (a \o b)[Len(a) + i] = b[i]
  OBVIOUS

\* The function FlattenSeq chooses exists.
LEMMA FlattenRuns ==
  ASSUME NEW S, NEW ss \in Seq(Seq(S)), Len(ss) > 0
  PROVE  \E f \in [1 .. Len(ss) -> Seq(S)] :
            /\ f = [i \in 1 .. Len(ss) |-> IF i = 1 THEN ss[i] ELSE f[i - 1] \o ss[i]]
            /\ FlattenSeq(ss) = f[Len(ss)]
<1> DEFINE N == {n \in Nat : n <= Len(ss) =>
                    \E f \in [1 .. n -> Seq(S)] :
                        \A i \in 1 .. n : f[i] = IF i = 1 THEN ss[i] ELSE f[i - 1] \o ss[i]}
<1>1. 0 \in N
  <2>1. [i \in 1 .. 0 |-> ss[i]] \in [1 .. 0 -> Seq(S)] /\ \A i \in 1 .. 0 : FALSE
    OBVIOUS
  <2> QED
    BY Zenon, <2>1
<1>2. ASSUME NEW n \in Nat, n \in N PROVE n + 1 \in N
  <2>0. n + 1 \in Nat
    OBVIOUS
  <2> SUFFICES ASSUME n + 1 <= Len(ss)
               PROVE  \E f \in [1 .. n + 1 -> Seq(S)] :
                        \A i \in 1 .. n + 1 : f[i] = IF i = 1 THEN ss[i] ELSE f[i - 1] \o ss[i]
    BY Zenon, <2>0
  <2>1. n <= Len(ss)
    OBVIOUS
  <2>2. PICK f \in [1 .. n -> Seq(S)] :
                \A i \in 1 .. n : f[i] = IF i = 1 THEN ss[i] ELSE f[i - 1] \o ss[i]
    BY Zenon, <1>2, <2>1
  <2> DEFINE g == [i \in 1 .. n + 1 |-> IF i \in 1 .. n THEN f[i]
                                        ELSE IF i = 1 THEN ss[i] ELSE f[n] \o ss[i]]
  <2>3. \A i \in 1 .. n + 1 : ss[i] \in Seq(S)
    OBVIOUS
  <2>4. \A i \in 1 .. n + 1 : i \in 1 .. n \/ (i = n + 1 /\ (i # 1 => n \in 1 .. n /\ i - 1 = n))
    OBVIOUS
  <2>5. g \in [1 .. n + 1 -> Seq(S)]
    <3>1. \A i \in 1 .. n + 1 : i # 1 /\ i \notin 1 .. n => f[n] \o ss[i] \in Seq(S)
      BY <2>3, <2>4
    <3> QED
      BY Zenon, <2>3, <3>1
  <2>6. \A i \in 1 .. n + 1 : g[i] = IF i = 1 THEN ss[i] ELSE g[i - 1] \o ss[i]
    <3> SUFFICES ASSUME NEW i \in 1 .. n + 1
                 PROVE  g[i] = IF i = 1 THEN ss[i] ELSE g[i - 1] \o ss[i]
      BY Zenon
    <3>1. i # 1 => i - 1 \in 1 .. n /\ i - 1 \in 1 .. n + 1
      OBVIOUS
    <3>2. i # 1 => g[i - 1] = f[i - 1]
      BY Zenon, <3>1
    <3> QED
      BY Zenon, <2>2, <2>4, <3>1, <3>2
  <2> HIDE DEF g
  <2> QED
    BY Zenon, <2>5, <2>6
<1>3. Len(ss) \in Nat /\ Len(ss) <= Len(ss) /\ Len(ss) # 0
  OBVIOUS
<1>4. \A n \in Nat : n \in N
  <2> HIDE DEF N
  <2> QED
    BY Zenon, <1>1, <1>2, Naturals
<1>5. PICK f \in [1 .. Len(ss) -> Seq(S)] :
            \A i \in 1 .. Len(ss) : f[i] = IF i = 1 THEN ss[i] ELSE f[i - 1] \o ss[i]
  BY Zenon, <1>3, <1>4
<1>6. f = [i \in 1 .. Len(ss) |-> IF i = 1 THEN ss[i] ELSE f[i - 1] \o ss[i]]
  BY Zenon, <1>5
<1> DEFINE h == CHOOSE x : x = [i \in 1 .. Len(ss) |-> IF i = 1 THEN ss[i] ELSE x[i - 1] \o ss[i]]
<1>7. h = [i \in 1 .. Len(ss) |-> IF i = 1 THEN ss[i] ELSE h[i - 1] \o ss[i]]
  BY Zenon, <1>6
<1>8. FlattenSeq(ss) = h[Len(ss)]
  BY Zenon, <1>3 DEF FlattenSeq
<1>9. h = f
  <2> DEFINE M == {n \in Nat : n \in 1 .. Len(ss) => h[n] = f[n]}
  <2>1. 0 \in M
    OBVIOUS
  <2>2. ASSUME NEW n \in Nat, n \in M PROVE n + 1 \in M
    <3>0. n + 1 \in Nat
      OBVIOUS
    <3> SUFFICES ASSUME n + 1 \in 1 .. Len(ss) PROVE h[n + 1] = f[n + 1]
      BY Zenon, <3>0
    <3>1. (n + 1) - 1 = n /\ (n + 1 # 1 => n \in 1 .. Len(ss))
      OBVIOUS
    <3>2. h[n + 1] = IF n + 1 = 1 THEN ss[n + 1] ELSE h[(n + 1) - 1] \o ss[n + 1]
      <4> HIDE DEF h
      <4> QED
        BY Zenon, <1>7
    <3>3. f[n + 1] = IF n + 1 = 1 THEN ss[n + 1] ELSE f[(n + 1) - 1] \o ss[n + 1]
      BY Zenon, <1>5
    <3> HIDE DEF h
    <3> QED
      BY Zenon, <2>2, <3>1, <3>2, <3>3
  <2>3. \A n \in Nat : n \in M
    <3> HIDE DEF M
    <3> QED
      BY Zenon, <2>1, <2>2, Naturals
  <2>4. \A n \in 1 .. Len(ss) : n \in Nat
    OBVIOUS
  <2> HIDE DEF h
  <2>5. \A n \in 1 .. Len(ss) : h[n] = f[n]
    BY Zenon, <2>3, <2>4
  <2>6. DOMAIN h = 1 .. Len(ss) /\ h = [n \in 1 .. Len(ss) |-> h[n]]
    BY Zenon, <1>7
  <2> QED
    BY Zenon, <2>5, <2>6
<1> QED
  BY Zenon, <1>6, <1>8, <1>9

LEMMA FlattenEmpty == FlattenSeq(<< >>) = << >>
  BY DEF FlattenSeq

LEMMA FlattenType ==
  ASSUME NEW S, NEW ss \in Seq(Seq(S))
  PROVE  FlattenSeq(ss) \in Seq(S)
<1>1. CASE ss = << >>
  <2>1. << >> \in Seq(S)
    OBVIOUS
  <2> QED
    BY Zenon, <1>1, <2>1, FlattenEmpty
<1>2. CASE ss # << >>
  <2>1. Len(ss) > 0 /\ Len(ss) \in 1 .. Len(ss)
    BY <1>2
  <2> QED
    <3>1. PICK f \in [1 .. Len(ss) -> Seq(S)] : FlattenSeq(ss) = f[Len(ss)]
      BY Zenon, <2>1, FlattenRuns
    <3> QED
      BY Zenon, <2>1, <3>1
<1> QED
  BY <1>1, <1>2

LEMMA FlattenAppend ==
  ASSUME NEW S, NEW ss \in Seq(Seq(S)), NEW s \in Seq(S)
  PROVE  FlattenSeq(Append(ss, s)) = FlattenSeq(ss) \o s
<1> DEFINE tt == Append(ss, s)
<1>1. /\ tt \in Seq(Seq(S)) /\ Len(tt) = Len(ss) + 1 /\ Len(tt) > 0 /\ tt[Len(tt)] = s
      /\ \A i \in 1 .. Len(ss) : tt[i] = ss[i]
  OBVIOUS
<1> HIDE DEF tt
<1>2. PICK f \in [1 .. Len(tt) -> Seq(S)] :
            /\ f = [i \in 1 .. Len(tt) |-> IF i = 1 THEN tt[i] ELSE f[i - 1] \o tt[i]]
            /\ FlattenSeq(tt) = f[Len(tt)]
  BY Zenon, <1>1, FlattenRuns
<1>3. \A i \in 1 .. Len(tt) : f[i] = IF i = 1 THEN tt[i] ELSE f[i - 1] \o tt[i]
  BY Zenon, <1>2
<1>4. CASE ss = << >>
  <2>1. Len(tt) = 1 /\ 1 \in 1 .. Len(tt)
    BY <1>1, <1>4
  <2>2. FlattenSeq(tt) = s
    BY Zenon, <1>1, <1>2, <1>3, <2>1
  <2>3. << >> \o s = s
    OBVIOUS
  <2> QED
    BY Zenon, <1>4, <2>2, <2>3, FlattenEmpty DEF tt
<1>5. CASE ss # << >>
  <2>0. Len(ss) > 0 /\ Len(ss) \in 1 .. Len(ss)
    BY <1>5
  <2>1. PICK g \in [1 .. Len(ss) -> Seq(S)] :
            /\ g = [i \in 1 .. Len(ss) |-> IF i = 1 THEN ss[i] ELSE g[i - 1] \o ss[i]]
            /\ FlattenSeq(ss) = g[Len(ss)]
    BY Zenon, <2>0, FlattenRuns
  <2>2. \A i \in 1 .. Len(ss) : g[i] = IF i = 1 THEN ss[i] ELSE g[i - 1] \o ss[i]
    BY Zenon, <2>1
  <2> DEFINE M == {n \in Nat : n \in 1 .. Len(ss) => f[n] = g[n]}
  <2>3. 0 \in M
    OBVIOUS
  <2>4. ASSUME NEW n \in Nat, n \in M PROVE n + 1 \in M
    <3>0. n + 1 \in Nat
      OBVIOUS
    <3> SUFFICES ASSUME n + 1 \in 1 .. Len(ss) PROVE f[n + 1] = g[n + 1]
      BY Zenon, <3>0
    <3>1. (n + 1) - 1 = n /\ (n + 1 # 1 => n \in 1 .. Len(ss)) /\ n + 1 \in 1 .. Len(tt)
      BY <1>1
    <3>2. f[n + 1] = IF n + 1 = 1 THEN tt[n + 1] ELSE f[(n + 1) - 1] \o tt[n + 1]
      BY Zenon, <1>3, <3>1
    <3>3. g[n + 1] = IF n + 1 = 1 THEN ss[n + 1] ELSE g[(n + 1) - 1] \o ss[n + 1]
      BY Zenon, <2>2
    <3> QED
      BY Zenon, <1>1, <2>4, <3>1, <3>2, <3>3
  <2>5. \A n \in Nat : n \in M
    <3> HIDE DEF M
    <3> QED
      BY Zenon, <2>3, <2>4, Naturals
  <2>6. Len(ss) \in Nat /\ Len(tt) \in 1 .. Len(tt) /\ Len(tt) # 1 /\ Len(tt) - 1 = Len(ss)
    BY <1>1, <2>0
  <2>7. f[Len(ss)] = g[Len(ss)]
    BY Zenon, <2>0, <2>5, <2>6
  <2>8. f[Len(tt)] = f[Len(tt) - 1] \o tt[Len(tt)]
    BY Zenon, <1>3, <2>6
  <2> QED
    BY Zenon, <1>1, <1>2, <2>1, <2>6, <2>7, <2>8 DEF tt
<1> QED
  BY <1>4, <1>5

\* Flattening grows with each part.
LEMMA FlattenPrefix ==
  ASSUME NEW S, NEW ss \in Seq(Seq(S)), NEW k \in 1 .. Len(ss)
  PROVE  /\ FlattenSeq(SubSeq(ss, 1, k - 1)) \in Seq(S)
         /\ FlattenSeq(SubSeq(ss, 1, k)) = FlattenSeq(SubSeq(ss, 1, k - 1)) \o ss[k]
<1>1. /\ SubSeq(ss, 1, k - 1) \in Seq(Seq(S)) /\ ss[k] \in Seq(S)
      /\ SubSeq(ss, 1, k) = Append(SubSeq(ss, 1, k - 1), ss[k])
  OBVIOUS
<1> QED
  BY Zenon, <1>1, FlattenType, FlattenAppend

-----------------------------------------------------------------------------
(* The history, and the coins after each of its transactions.              *)

Record == [tx : Tx, height : Nat]
Block == [txs : Candidates, undo : Seq(Coin)]
MaybeCoin == Coin \cup {NoCoin}

LEMMA NoCoinApart == NoCoin \notin Coin
<1> SUFFICES ASSUME NoCoin \in Coin PROVE FALSE
  OBVIOUS
<1>1. NoCoin.height \in Nat
  BY Zenon DEF Coin
<1>2. NoCoin.height = -1
  BY DEF NoCoin
<1> QED
  BY <1>1, <1>2

\* One transaction more: it creates, consumes, or leaves alone.
LEMMA CoinStep ==
  ASSUME NEW hist, NEW n \in Nat, NEW o
  PROVE  CoinOf(hist, n + 1, o) =
            IF o \in Outputs[hist[n + 1].tx]
            THEN [height |-> hist[n + 1].height, coinbase |-> hist[n + 1].tx \in Coinbase]
            ELSE IF Consumes(hist[n + 1].tx, o) THEN NoCoin ELSE CoinOf(hist, n, o)
<1> DEFINE made(k) == {p \in 1 .. k : UnspentAt(hist, k, o, p)}
<1>1. CASE o \in Outputs[hist[n + 1].tx]
  <2>1. UnspentAt(hist, n + 1, o, n + 1) /\ n + 1 \in 1 .. n + 1
    BY <1>1 DEF UnspentAt
  <2>2. \A p \in 1 .. n + 1 : p # n + 1 => n + 1 \in p + 1 .. n + 1
    OBVIOUS
  <2>3. made(n + 1) = {n + 1}
    BY Zenon, <1>1, <2>1, <2>2 DEF UnspentAt
  <2>4. (CHOOSE p \in made(n + 1) : TRUE) = n + 1 /\ made(n + 1) # {}
    BY Zenon, <2>3
  <2> QED
    BY Zenon, <1>1, <2>4 DEF CoinOf
<1>2. CASE o \notin Outputs[hist[n + 1].tx] /\ Consumes(hist[n + 1].tx, o)
  <2>1. \A p \in 1 .. n + 1 : p = n + 1 \/ n + 1 \in p + 1 .. n + 1
    OBVIOUS
  <2>2. made(n + 1) = {}
    BY Zenon, <1>2, <2>1 DEF UnspentAt
  <2> QED
    BY Zenon, <1>2, <2>2 DEF CoinOf
<1>3. CASE o \notin Outputs[hist[n + 1].tx] /\ ~Consumes(hist[n + 1].tx, o)
  <2>1. ASSUME NEW p
        PROVE  p \in 1 .. n + 1 /\ UnspentAt(hist, n + 1, o, p)
                 <=> p \in 1 .. n /\ UnspentAt(hist, n, o, p)
    <3>1. ASSUME p \in 1 .. n + 1, UnspentAt(hist, n + 1, o, p)
          PROVE  p \in 1 .. n /\ UnspentAt(hist, n, o, p)
      <4>1. p # n + 1
        BY Zenon, <1>3, <3>1 DEF UnspentAt
      <4>2. p \in 1 .. n /\ \A q \in p + 1 .. n : q \in p + 1 .. n + 1
        BY <3>1, <4>1
      <4> QED
        BY Zenon, <3>1, <4>2 DEF UnspentAt
    <3>2. ASSUME p \in 1 .. n, UnspentAt(hist, n, o, p)
          PROVE  p \in 1 .. n + 1 /\ UnspentAt(hist, n + 1, o, p)
      <4>1. p \in 1 .. n + 1 /\ \A q \in p + 1 .. n + 1 : q = n + 1 \/ q \in p + 1 .. n
        BY <3>2
      <4> QED
        BY Zenon, <1>3, <3>2, <4>1 DEF UnspentAt
    <3> QED
      BY Zenon, <3>1, <3>2
  <2>2. made(n + 1) = made(n)
    BY Zenon, <2>1
  <2> HIDE DEF made
  <2>3. CoinOf(hist, n + 1, o) = CoinOf(hist, n, o)
    BY Zenon, <2>2 DEF CoinOf, made
  <2> QED
    BY Zenon, <1>3, <2>3
<1> QED
  BY Zenon, <1>1, <1>2, <1>3

\* The coins after n transactions depend on these only.
LEMMA CoinPrefix ==
  ASSUME NEW h1, NEW h2, NEW n \in Nat, \A p \in 1 .. n : h1[p] = h2[p], NEW o
  PROVE  CoinOf(h1, n, o) = CoinOf(h2, n, o)
<1> DEFINE made(h) == {p \in 1 .. n : UnspentAt(h, n, o, p)}
<1>1. \A p \in 1 .. n : \A q \in p + 1 .. n : q \in 1 .. n
  OBVIOUS
<1>2. \A p \in 1 .. n : UnspentAt(h1, n, o, p) <=> UnspentAt(h2, n, o, p)
  BY Zenon, <1>1 DEF UnspentAt
<1>3. made(h1) = made(h2)
  BY Zenon, <1>2
<1>4. CASE made(h1) = {}
  BY Zenon, <1>3, <1>4 DEF CoinOf
<1>5. CASE made(h1) # {}
  <2> DEFINE p == CHOOSE p \in made(h1) : TRUE
  <2>1. p \in 1 .. n
    BY Zenon, <1>5
  <2>2. h1[p] = h2[p]
    BY Zenon, <2>1
  <2>3. CoinOf(h1, n, o) = [height |-> h1[p].height, coinbase |-> h1[p].tx \in Coinbase]
    BY Zenon, <1>5 DEF CoinOf
  <2>4. p = CHOOSE q \in made(h2) : TRUE
    BY Zenon, <1>3
  <2>5. CoinOf(h2, n, o) = [height |-> h2[p].height, coinbase |-> h2[p].tx \in Coinbase]
    <3> HIDE DEF p
    <3> QED
      BY Zenon, <1>3, <1>5, <2>4 DEF CoinOf
  <2> QED
    BY Zenon, <2>2, <2>3, <2>5
<1> QED
  BY <1>4, <1>5

LEMMA CoinType ==
  ASSUME NEW hist, NEW n \in Nat, \A p \in 1 .. n : hist[p] \in Record, NEW o
  PROVE  /\ CoinOf(hist, n, o) \in MaybeCoin
         /\ CoinOf(hist, n, o) = NoCoin <=> \A p \in 1 .. n : ~UnspentAt(hist, n, o, p)
<1> DEFINE made == {p \in 1 .. n : UnspentAt(hist, n, o, p)}
<1>1. CASE made = {}
  BY Zenon, <1>1 DEF CoinOf, MaybeCoin
<1>2. CASE made # {}
  <2> DEFINE p == CHOOSE p \in made : TRUE
  <2>1. p \in 1 .. n
    BY Zenon, <1>2
  <2>2. hist[p] \in Record
    BY Zenon, <2>1
  <2>3. CoinOf(hist, n, o) = [height |-> hist[p].height, coinbase |-> hist[p].tx \in Coinbase]
    BY Zenon, <1>2 DEF CoinOf
  <2> HIDE DEF p
  <2>4. CoinOf(hist, n, o) \in Coin
    BY <2>2, <2>3 DEF Coin, Record
  <2> QED
    BY Zenon, <1>2, <2>4, NoCoinApart DEF MaybeCoin
<1> QED
  BY <1>1, <1>2

LEMMA PartType ==
  ASSUME NEW txs \in Seq(Tx), NEW h \in Nat
  PROVE  LET s == [i \in DOMAIN txs |-> [tx |-> txs[i], height |-> h]]
         IN  /\ s \in Seq(Record) /\ Len(s) = Len(txs)
             /\ \A i \in 1 .. Len(txs) : s[i] = [tx |-> txs[i], height |-> h]
<1>1. Len(txs) \in Nat /\ DOMAIN txs = 1 .. Len(txs) /\ \A i \in 1 .. Len(txs) : txs[i] \in Tx
  OBVIOUS
<1>2. [i \in DOMAIN txs |-> [tx |-> txs[i], height |-> h]] \in [1 .. Len(txs) -> Record]
  BY Zenon, <1>1 DEF Record
<1> QED
  BY Zenon, <1>1, <1>2, SeqOfFun

LEMMA PartsType ==
  ASSUME NEW c \in Seq(Block)
  PROVE  [h \in DOMAIN c |-> [i \in DOMAIN c[h].txs |-> [tx |-> c[h].txs[i], height |-> h]]]
            \in Seq(Seq(Record))
<1>1. /\ Len(c) \in Nat /\ DOMAIN c = 1 .. Len(c)
      /\ \A h \in 1 .. Len(c) : c[h] \in Block /\ h \in Nat
  OBVIOUS
<1>2. \A h \in 1 .. Len(c) : c[h].txs \in Seq(Tx)
  BY Zenon, <1>1, TxAssumption DEF Block
<1>3. \A h \in 1 .. Len(c) :
            [i \in DOMAIN c[h].txs |-> [tx |-> c[h].txs[i], height |-> h]] \in Seq(Record)
  BY Zenon, <1>1, <1>2, PartType
<1>4. [h \in DOMAIN c |-> [i \in DOMAIN c[h].txs |-> [tx |-> c[h].txs[i], height |-> h]]]
            \in [1 .. Len(c) -> Seq(Record)]
  BY Zenon, <1>1, <1>3
<1> QED
  BY Zenon, <1>1, <1>4, SeqOfFun

LEMMA HistoryType ==
  ASSUME NEW c \in Seq(Block)
  PROVE  History(c) \in Seq(Record)
BY Zenon, PartsType, FlattenType DEF History

\* hist is old with the transactions txs of a block at height h after it.
Prolongs(hist, old, txs, h) ==
    /\ hist \in Seq(Record) /\ Len(hist) = Len(old) + Len(txs)
    /\ \A p \in 1 .. Len(old) : hist[p] = old[p]
    /\ \A i \in 1 .. Len(txs) : hist[Len(old) + i] = [tx |-> txs[i], height |-> h]

\* A block adds its transactions to the history.
LEMMA HistoryAppend ==
  ASSUME NEW c \in Seq(Block), NEW b, b.txs \in Seq(Tx)
  PROVE  Prolongs(History(Append(c, b)), History(c), b.txs, Len(c) + 1)
<1> DEFINE part(x, h) == [i \in DOMAIN x[h].txs |-> [tx |-> x[h].txs[i], height |-> h]]
           ss == [h \in DOMAIN c |-> part(c, h)]
           d == Append(c, b)
           s == [i \in DOMAIN b.txs |-> [tx |-> b.txs[i], height |-> Len(c) + 1]]
<1>1. ss \in Seq(Seq(Record))
  BY Zenon, PartsType
<1>0. Len(c) + 1 \in Nat
  OBVIOUS
<1>2. /\ s \in Seq(Record) /\ Len(s) = Len(b.txs)
      /\ \A i \in 1 .. Len(b.txs) : s[i] = [tx |-> b.txs[i], height |-> Len(c) + 1]
  BY Zenon, <1>0, PartType
<1>3. [h \in DOMAIN d |-> part(d, h)] = Append(ss, s)
  <2>1. /\ DOMAIN d = 1 .. Len(c) + 1 /\ d[Len(c) + 1] = b
        /\ \A h \in 1 .. Len(c) : d[h] = c[h] /\ h \in DOMAIN c
    OBVIOUS
  <2>2. Len(ss) = Len(c)
    OBVIOUS
  <2>3. /\ Append(ss, s) \in [1 .. Len(c) + 1 -> Seq(Record)]
        /\ Append(ss, s)[Len(c) + 1] = s
        /\ \A h \in 1 .. Len(c) : Append(ss, s)[h] = ss[h]
    <3> HIDE DEF ss, s
    <3>1. s \in Seq(Record)
      BY Zenon, <1>2
    <3> QED
      <4>1. /\ Append(ss, s) \in Seq(Seq(Record)) /\ Len(Append(ss, s)) = Len(ss) + 1
            /\ \A h \in 1 .. Len(ss) : Append(ss, s)[h] = ss[h]
            /\ Append(ss, s)[Len(ss) + 1] = s
        BY <1>1, <3>1, AppendProperties
      <4>2. Append(ss, s) \in [1 .. Len(Append(ss, s)) -> Seq(Record)]
        BY Zenon, <4>1, LenProperties
      <4> QED
        BY Zenon, <2>2, <4>1, <4>2
  <2>4. \A h \in 1 .. Len(c) + 1 : h \in 1 .. Len(c) \/ h = Len(c) + 1
    OBVIOUS
  <2>5. \A h \in 1 .. Len(c) + 1 : part(d, h) = Append(ss, s)[h]
    <3> HIDE DEF d
    <3> QED
      BY Zenon, <2>1, <2>3, <2>4
  <2> HIDE DEF d, s, ss, part
  <2> QED
    BY Zenon, <2>1, <2>3, <2>5
<1>4. History(d) = FlattenSeq(Append(ss, s)) /\ History(c) = FlattenSeq(ss)
  <2>1. History(d) = FlattenSeq([h \in DOMAIN d |-> part(d, h)])
    BY Zenon DEF History
  <2> QED
    BY Zenon, <1>3, <2>1 DEF History
<1> HIDE DEF d, s, ss
<1>5. History(d) = History(c) \o s
  BY Zenon, <1>1, <1>2, <1>4, FlattenAppend
<1>6. History(c) \in Seq(Record)
  BY Zenon, HistoryType
<1> QED
  <2>1. s \in Seq(Record)
    BY Zenon, <1>2
  <2>2. /\ History(d) \in Seq(Record) /\ Len(History(d)) = Len(History(c)) + Len(s)
        /\ \A i \in 1 .. Len(History(c)) : History(d)[i] = History(c)[i]
        /\ \A i \in 1 .. Len(s) : History(d)[Len(History(c)) + i] = s[i]
    <3>1. /\ History(c) \o s \in Seq(Record) /\ Len(History(c) \o s) = Len(History(c)) + Len(s)
          /\ \A i \in 1 .. Len(History(c)) : (History(c) \o s)[i] = History(c)[i]
          /\ \A i \in 1 .. Len(s) : (History(c) \o s)[Len(History(c)) + i] = s[i]
      BY <1>6, <2>1, Concat
    <3> QED
      BY Zenon, <1>5, <3>1
  <2> QED
    <3>1. Len(History(d)) = Len(History(c)) + Len(b.txs)
      BY Zenon, <1>2, <2>2
    <3>2. ASSUME NEW i \in 1 .. Len(b.txs)
          PROVE  History(d)[Len(History(c)) + i] = [tx |-> b.txs[i], height |-> Len(c) + 1]
      <4>1. i \in 1 .. Len(s)
        BY Zenon, <1>2
      <4> QED
        BY Zenon, <1>2, <2>2, <4>1
    <3> QED
      BY Zenon, <2>2, <3>1, <3>2 DEF d, Prolongs

-----------------------------------------------------------------------------
(* Coin views.  A view is judged by what saving it would write.            *)

Entry == [coin : Coin, spent : BOOLEAN]
View == UNION {[D -> Entry] : D \in SUBSET Outpoint}
State == [ok : BOOLEAN, view : View, undo : Seq(Coin)]
DbType == db \in [Outpoint -> MaybeCoin]

LEMMA ViewFacts ==
  ASSUME NEW v \in View
  PROVE  DOMAIN v \subseteq Outpoint /\ \A o \in DOMAIN v : v[o] \in Entry
<1>1. PICK D \in SUBSET Outpoint : v \in [D -> Entry]
  BY Zenon DEF View
<1> QED
  BY Zenon, <1>1

LEMMA EmptySaved ==
  ASSUME DbType
  PROVE  EmptyView \in View /\ \A x \in Outpoint : SaveView(EmptyView)[x] = db[x]
<1>1. EmptyView \in [{} -> Entry] /\ DOMAIN EmptyView = {}
  BY Zenon DEF EmptyView
<1>2. EmptyView \in View
  BY Zenon, <1>1 DEF View
<1> QED
  BY Zenon, <1>1, <1>2 DEF SaveView

LEMMA SavedType ==
  ASSUME DbType, NEW v \in View, NEW x \in Outpoint
  PROVE  SaveView(v)[x] \in MaybeCoin
<1>1. x \in DOMAIN v => v[x].coin \in Coin
  BY Zenon, ViewFacts DEF Entry
<1> QED
  BY Zenon, <1>1 DEF SaveView, MaybeCoin, DbType

\* btc_view_put.
LEMMA PutSaved ==
  ASSUME NEW v \in View, NEW o \in Outpoint, NEW c \in Coin, NEW f \in BOOLEAN
  PROVE  LET w == Put(v, o, c, f)
         IN  /\ w \in View
             /\ \A x \in Outpoint : SaveView(w)[x] =
                    IF x = o THEN (IF f THEN NoCoin ELSE c) ELSE SaveView(v)[x]
             /\ DOMAIN v \subseteq DOMAIN w /\ o \in DOMAIN w /\ w[o].coin = c
             /\ \A x \in DOMAIN v : x # o => w[x] = v[x]
<1> DEFINE w == Put(v, o, c, f)
           e == [coin |-> c, spent |-> f]
<1>1. DOMAIN v \subseteq Outpoint /\ \A x \in DOMAIN v : v[x] \in Entry
  BY Zenon, ViewFacts
<1>2. e \in Entry /\ e.coin = c /\ e.spent = f
  BY DEF Entry
<1>3. w = [x \in DOMAIN v \cup {o} |-> IF x = o THEN e ELSE v[x]]
  BY Zenon DEF Put
<1> HIDE DEF w, e
<1>4. DOMAIN w = DOMAIN v \cup {o} /\ w[o] = e /\ \A x \in DOMAIN v : x # o => w[x] = v[x]
  BY Zenon, <1>3
<1>5. w \in [DOMAIN v \cup {o} -> Entry]
  BY Zenon, <1>1, <1>2, <1>3
<1>6. DOMAIN v \cup {o} \in SUBSET Outpoint
  BY Zenon, <1>1
<1>7. w \in View
  BY Zenon, <1>5, <1>6 DEF View
<1>8. ASSUME NEW x \in Outpoint
      PROVE  SaveView(w)[x] = IF x = o THEN (IF f THEN NoCoin ELSE c) ELSE SaveView(v)[x]
  <2>1. CASE x = o
    BY Zenon, <1>2, <1>4, <2>1 DEF SaveView
  <2>2. CASE x # o
    <3>1. x \in DOMAIN w <=> x \in DOMAIN v
      BY Zenon, <1>4, <2>2
    <3>2. x \in DOMAIN v => w[x] = v[x]
      BY Zenon, <1>4, <2>2
    <3> QED
      BY Zenon, <2>2, <3>1, <3>2 DEF SaveView
  <2> QED
    BY <2>1, <2>2
<1> QED
  BY Zenon, <1>2, <1>4, <1>7, <1>8 DEF w

\* btc_view_add, from v to w.
Added(w, v, t, h, f) ==
    /\ w \in View
    /\ \A x \in Outpoint : SaveView(w)[x] =
            IF x \in Outputs[t]
            THEN (IF f THEN NoCoin ELSE [height |-> h, coinbase |-> t \in Coinbase])
            ELSE SaveView(v)[x]

LEMMA AddSaved ==
  ASSUME NEW v \in View, NEW t \in Tx, NEW h \in Nat, NEW f \in BOOLEAN
  PROVE  Added(AddOutputs(v, t, h, f), v, t, h, f)
<1> DEFINE w == AddOutputs(v, t, h, f)
           c == [height |-> h, coinbase |-> t \in Coinbase]
           e == [coin |-> c, spent |-> f]
<1>1. DOMAIN v \subseteq Outpoint /\ \A x \in DOMAIN v : v[x] \in Entry
  BY Zenon, ViewFacts
<1>2. e \in Entry /\ e.coin = c /\ e.spent = f
  BY DEF Entry, Coin
<1>3. w = [x \in DOMAIN v \cup Outputs[t] |-> IF x \in Outputs[t] THEN e ELSE v[x]]
  BY Zenon DEF AddOutputs
<1>4. Outputs[t] \subseteq Outpoint
  BY Zenon, TxAssumption
<1> HIDE DEF w, e, c
<1>5. /\ DOMAIN w = DOMAIN v \cup Outputs[t] /\ \A x \in Outputs[t] : w[x] = e
      /\ \A x \in DOMAIN v : x \notin Outputs[t] => w[x] = v[x]
  BY Zenon, <1>3
<1>6. w \in [DOMAIN v \cup Outputs[t] -> Entry]
  BY Zenon, <1>1, <1>2, <1>3
<1>7. DOMAIN v \cup Outputs[t] \in SUBSET Outpoint
  BY Zenon, <1>1, <1>4
<1>8. w \in View
  BY Zenon, <1>6, <1>7 DEF View
<1>9. ASSUME NEW x \in Outpoint
      PROVE  SaveView(w)[x] = IF x \in Outputs[t] THEN (IF f THEN NoCoin ELSE c)
                              ELSE SaveView(v)[x]
  <2>1. CASE x \in Outputs[t]
    BY Zenon, <1>2, <1>5, <2>1 DEF SaveView
  <2>2. CASE x \notin Outputs[t]
    <3>1. x \in DOMAIN w <=> x \in DOMAIN v
      BY Zenon, <1>5, <2>2
    <3>2. x \in DOMAIN v => w[x] = v[x]
      BY Zenon, <1>5, <2>2
    <3> QED
      BY Zenon, <2>2, <3>1, <3>2 DEF SaveView
  <2> QED
    BY <2>1, <2>2
<1> QED
  BY Zenon, <1>8, <1>9 DEF w, c, Added

\* btc_view_get, or else the database.
LEMMA LookedUp ==
  ASSUME DbType, NEW v \in View, NEW o \in Outpoint
  PROVE  /\ Lookup(v, o).spent <=> SaveView(v)[o] = NoCoin
         /\ ~Lookup(v, o).spent => /\ Lookup(v, o).coin = SaveView(v)[o]
                                   /\ Lookup(v, o).coin \in Coin
<1>1. CASE o \in DOMAIN v
  <2>1. v[o].coin \in Coin /\ v[o].coin # NoCoin
    BY Zenon, <1>1, ViewFacts, NoCoinApart DEF Entry
  <2>2. Lookup(v, o) = v[o]
    BY Zenon, <1>1 DEF Lookup
  <2>3. SaveView(v)[o] = IF v[o].spent THEN NoCoin ELSE v[o].coin
    BY Zenon, <1>1 DEF SaveView
  <2> QED
    BY Zenon, <2>1, <2>2, <2>3
<1>2. CASE o \notin DOMAIN v
  <2>1. db[o] \in MaybeCoin /\ SaveView(v)[o] = db[o]
    BY Zenon, <1>2 DEF DbType, SaveView
  <2>2. Lookup(v, o).coin = db[o] /\ (Lookup(v, o).spent <=> db[o] = NoCoin)
    BY Zenon, <1>2 DEF Lookup
  <2> QED
    BY Zenon, <2>1, <2>2 DEF MaybeCoin
<1> QED
  BY <1>1, <1>2

\* One turn of the loop of btc_view_spend, from s to r.
Turn(r, s, o) ==
    LET m == SaveView(s.view)
    IN  /\ r \in State
        /\ r.ok <=> s.ok /\ m[o] # NoCoin
        /\ r.ok => /\ m[o] \in Coin
                   /\ \A x \in Outpoint :
                           SaveView(r.view)[x] = IF x = o THEN NoCoin ELSE m[x]
                   /\ r.undo = Append(s.undo, m[o])
                   /\ r.view[o].coin = m[o]
                   /\ \A x \in DOMAIN s.view : x # o => r.view[x] = s.view[x]
                   /\ DOMAIN s.view \subseteq DOMAIN r.view /\ o \in DOMAIN r.view

LEMMA SpentOne ==
  ASSUME DbType, NEW s \in State, NEW o \in Outpoint
  PROVE  Turn(SpendInput(s, o), s, o)
<1> DEFINE r == SpendInput(s, o)
           m == SaveView(s.view)
           e == Lookup(s.view, o)
<1>1. s.ok \in BOOLEAN /\ s.view \in View /\ s.undo \in Seq(Coin)
  BY Zenon DEF State
<1>2. (e.spent <=> m[o] = NoCoin) /\ (~e.spent => e.coin = m[o] /\ e.coin \in Coin)
  BY Zenon, <1>1, LookedUp
<1>3. CASE s.ok /\ ~e.spent
  <2> DEFINE w == Put(s.view, o, e.coin, TRUE)
  <2>1. r = [ok |-> TRUE, view |-> w, undo |-> Append(s.undo, e.coin)]
    BY Zenon, <1>3 DEF SpendInput
  <2>2. e.coin = m[o] /\ e.coin \in Coin /\ m[o] # NoCoin
    BY Zenon, <1>2, <1>3
  <2> HIDE DEF e, m
  <2>3. /\ w \in View
        /\ \A x \in Outpoint : SaveView(w)[x] = IF x = o THEN NoCoin ELSE SaveView(s.view)[x]
        /\ DOMAIN s.view \subseteq DOMAIN w /\ o \in DOMAIN w /\ w[o].coin = e.coin
        /\ \A x \in DOMAIN s.view : x # o => w[x] = s.view[x]
    <3>1. PICK f \in BOOLEAN : f = TRUE
      BY Zenon
    <3>2. LET u == Put(s.view, o, e.coin, f)
          IN  /\ u \in View
              /\ \A x \in Outpoint : SaveView(u)[x] =
                    IF x = o THEN (IF f THEN NoCoin ELSE e.coin) ELSE SaveView(s.view)[x]
              /\ DOMAIN s.view \subseteq DOMAIN u /\ o \in DOMAIN u /\ u[o].coin = e.coin
              /\ \A x \in DOMAIN s.view : x # o => u[x] = s.view[x]
      BY <1>1, <2>2, PutSaved
    <3> QED
      BY Zenon, <3>1, <3>2
  <2>4. Append(s.undo, e.coin) \in Seq(Coin)
    <3>1. e.coin \in Coin
      BY Zenon, <2>2
    <3> QED
      BY <1>1, <3>1
  <2> HIDE DEF w, r
  <2>5. r.ok = TRUE /\ r.view = w /\ r.undo = Append(s.undo, e.coin) /\ r \in State
    BY Zenon, <2>1, <2>3, <2>4 DEF State
  <2> QED
    BY Zenon, <1>3, <2>2, <2>3, <2>5 DEF r, m, Turn
<1>4. CASE ~(s.ok /\ ~e.spent)
  <2>1. r = [s EXCEPT !.ok = FALSE]
    BY Zenon, <1>4 DEF SpendInput
  <2> HIDE DEF r
  <2>2. r \in State /\ r.ok = FALSE
    BY Zenon, <2>1 DEF State
  <2> HIDE DEF e, m
  <2> QED
    BY Zenon, <1>2, <1>4, <2>2 DEF r, m, Turn
<1> QED
  BY Zenon, <1>3, <1>4

\* The turns of btc_view_spend.
Spends(g, s, ins) ==
    /\ g[0] = s
    /\ \A i \in 1 .. Len(ins) : g[i] = SpendInput(g[i - 1], ins[i])
    /\ SpendInputs(s, ins) = g[Len(ins)]

LEMMA SpendRuns ==
  ASSUME NEW s, NEW ins, Len(ins) \in Nat
  PROVE  \E g : Spends(g, s, ins)
<1> DEFINE good(f, k) == f = [i \in 0 .. k |-> IF i = 0 THEN s ELSE SpendInput(f[i - 1], ins[i])]
           N == {k \in Nat : \E f : good(f, k)}
<1>1. 0 \in N
  <2> DEFINE f == [i \in 0 .. 0 |-> s]
  <2>1. \A i \in 0 .. 0 : i = 0
    OBVIOUS
  <2>2. good(f, 0)
    BY Zenon, <2>1
  <2> HIDE DEF good
  <2> QED
    BY Zenon, <2>2
<1>2. ASSUME NEW k \in Nat, k \in N PROVE k + 1 \in N
  <2>1. PICK f : good(f, k)
    BY Zenon, <1>2
  <2> DEFINE h == [i \in 0 .. k + 1 |-> IF i = 0 THEN s ELSE SpendInput(f[i - 1], ins[i])]
  <2>2. \A i \in 0 .. k + 1 : i # 0 => i - 1 \in 0 .. k /\ i - 1 \in 0 .. k + 1
    OBVIOUS
  <2>3. \A j \in 0 .. k : j \in 0 .. k + 1
    OBVIOUS
  <2>4. \A j \in 0 .. k : h[j] = f[j]
    BY Zenon, <2>1, <2>3
  <2>5. \A i \in 0 .. k + 1 : i # 0 => h[i - 1] = f[i - 1]
    BY Zenon, <2>2, <2>4
  <2>6. \A i \in 0 .. k + 1 : h[i] = IF i = 0 THEN s ELSE SpendInput(h[i - 1], ins[i])
    <3> SUFFICES ASSUME NEW i \in 0 .. k + 1
                 PROVE  h[i] = IF i = 0 THEN s ELSE SpendInput(h[i - 1], ins[i])
      BY Zenon
    <3>1. h[i] = IF i = 0 THEN s ELSE SpendInput(f[i - 1], ins[i])
      BY Zenon
    <3>2. i # 0 => h[i - 1] = f[i - 1]
      BY Zenon, <2>5
    <3> HIDE DEF h
    <3> QED
      BY Zenon, <3>1, <3>2
  <2>7. h = [i \in 0 .. k + 1 |-> h[i]]
    BY Zenon
  <2>8. good(h, k + 1)
    <3> HIDE DEF h
    <3> QED
      BY Zenon, <2>6, <2>7
  <2>9. k + 1 \in Nat
    OBVIOUS
  <2> HIDE DEF good
  <2> QED
    BY Zenon, <2>8, <2>9
<1>3. \A k \in Nat : k \in N
  <2> HIDE DEF N
  <2> QED
    BY Zenon, <1>1, <1>2, Naturals
<1>4. \E f : good(f, Len(ins))
  <2> HIDE DEF good
  <2> QED
    BY Zenon, <1>3
<1> DEFINE g == CHOOSE f : f = [i \in 0 .. Len(ins) |-> IF i = 0 THEN s ELSE SpendInput(f[i - 1], ins[i])]
<1>5. g = [i \in 0 .. Len(ins) |-> IF i = 0 THEN s ELSE SpendInput(g[i - 1], ins[i])]
  BY Zenon, <1>4
<1>6. SpendInputs(s, ins) = g[Len(ins)]
  BY Zenon DEF SpendInputs
<1> HIDE DEF g
<1>7. \A i \in 0 .. Len(ins) : g[i] = IF i = 0 THEN s ELSE SpendInput(g[i - 1], ins[i])
  BY Zenon, <1>5
<1>8. 0 \in 0 .. Len(ins) /\ \A i \in 1 .. Len(ins) : i \in 0 .. Len(ins) /\ i # 0
  OBVIOUS
<1> QED
  BY Zenon, <1>6, <1>7, <1>8 DEF Spends

\* What the first n turns of btc_view_spend do; m is what s would save.
Took(r, s, m, ins, n) ==
    /\ r \in State
    /\ r.ok <=> s.ok /\ \A j \in 1 .. n : m[ins[j]] # NoCoin
    /\ r.ok =>
        /\ \A x \in Outpoint :
                SaveView(r.view)[x] = IF \E j \in 1 .. n : ins[j] = x THEN NoCoin ELSE m[x]
        /\ Len(r.undo) = Len(s.undo) + n
        /\ \A k \in 1 .. Len(s.undo) : r.undo[k] = s.undo[k]
        /\ \A j \in 1 .. n : r.undo[Len(s.undo) + j] = m[ins[j]]
        /\ \A j \in 1 .. n : ins[j] \in DOMAIN r.view /\ r.view[ins[j]].coin = m[ins[j]]

LEMMA TookNone ==
  ASSUME NEW s \in State, NEW m, NEW ins, \A x \in Outpoint : SaveView(s.view)[x] = m[x]
  PROVE  Took(s, s, m, ins, 0)
<1>1. \A j \in 1 .. 0 : FALSE
  OBVIOUS
<1>2. s.undo \in Seq(Coin)
  BY Zenon DEF State
<1>3. Len(s.undo) = Len(s.undo) + 0
  BY <1>2
<1> QED
  BY Zenon, <1>1, <1>3 DEF Took

LEMMA TookOne ==
  ASSUME DbType, NEW s \in State, NEW m, NEW ins \in Seq(Outpoint),
         \A i, j \in 1 .. Len(ins) : ins[i] = ins[j] => i = j,
         NEW n \in Nat, n + 1 <= Len(ins), NEW q, Took(q, s, m, ins, n)
  PROVE  Took(SpendInput(q, ins[n + 1]), s, m, ins, n + 1)
<1>1. PICK o \in Outpoint : o = ins[n + 1]
  BY n + 1 \in 1 .. Len(ins)
<1>2. PICK r : r = SpendInput(q, o)
  BY Zenon
<1>3. q \in State /\ q.undo \in Seq(Coin) /\ s.undo \in Seq(Coin)
  BY Zenon DEF Took, State
<1> DEFINE mq == SaveView(q.view)
<1>4. /\ r \in State
      /\ r.ok <=> q.ok /\ mq[o] # NoCoin
      /\ r.ok => /\ mq[o] \in Coin
                 /\ \A x \in Outpoint : SaveView(r.view)[x] = IF x = o THEN NoCoin ELSE mq[x]
                 /\ r.undo = Append(q.undo, mq[o])
                 /\ r.view[o].coin = mq[o]
                 /\ \A x \in DOMAIN q.view : x # o => r.view[x] = q.view[x]
                 /\ DOMAIN q.view \subseteq DOMAIN r.view /\ o \in DOMAIN r.view
  <2>1. Turn(r, q, o)
    BY Zenon, <1>2, <1>3, SpentOne
  <2> QED
    BY Zenon, <2>1 DEF Turn
<1> HIDE DEF mq
<1>5. /\ \A j \in 1 .. n : j \in 1 .. Len(ins) /\ j \in 1 .. n + 1 /\ j # n + 1
      /\ \A j \in 1 .. n + 1 : j \in 1 .. n \/ j = n + 1
      /\ n + 1 \in 1 .. n + 1 /\ n + 1 \in 1 .. Len(ins)
  OBVIOUS
<1>6. \A j \in 1 .. n : ins[j] # o
  BY Zenon, <1>1, <1>5
<1>7. q.ok => mq[o] = m[o]
  BY Zenon, <1>6 DEF Took, mq
<1>8. r.ok <=> s.ok /\ \A j \in 1 .. n + 1 : m[ins[j]] # NoCoin
  BY Zenon, <1>1, <1>4, <1>5, <1>7 DEF Took
<1>9. ASSUME r.ok
      PROVE  /\ \A x \in Outpoint : SaveView(r.view)[x] =
                    IF \E j \in 1 .. n + 1 : ins[j] = x THEN NoCoin ELSE m[x]
             /\ Len(r.undo) = Len(s.undo) + (n + 1)
             /\ \A k \in 1 .. Len(s.undo) : r.undo[k] = s.undo[k]
             /\ \A j \in 1 .. n + 1 : r.undo[Len(s.undo) + j] = m[ins[j]]
             /\ \A j \in 1 .. n + 1 : ins[j] \in DOMAIN r.view /\ r.view[ins[j]].coin = m[ins[j]]
  <2>0. q.ok /\ mq[o] \in Coin
    BY Zenon, <1>4, <1>9
  <2>1. q.ok /\ mq[o] = m[o] /\ m[o] \in Coin
    BY Zenon, <1>7, <2>0
  <2>2. /\ Len(q.undo) = Len(s.undo) + n
        /\ \A k \in 1 .. Len(s.undo) : q.undo[k] = s.undo[k]
        /\ \A j \in 1 .. n : q.undo[Len(s.undo) + j] = m[ins[j]]
        /\ \A j \in 1 .. n : ins[j] \in DOMAIN q.view /\ q.view[ins[j]].coin = m[ins[j]]
        /\ \A x \in Outpoint : mq[x] = IF \E j \in 1 .. n : ins[j] = x THEN NoCoin ELSE m[x]
    BY Zenon, <2>1 DEF Took, mq
  <2>3. \A x \in Outpoint : SaveView(r.view)[x] =
                    IF \E j \in 1 .. n + 1 : ins[j] = x THEN NoCoin ELSE m[x]
    <3> SUFFICES ASSUME NEW x \in Outpoint
                 PROVE  SaveView(r.view)[x] =
                            IF \E j \in 1 .. n + 1 : ins[j] = x THEN NoCoin ELSE m[x]
      BY Zenon
    <3>1. SaveView(r.view)[x] = IF x = o THEN NoCoin ELSE mq[x]
      BY Zenon, <1>4, <1>9
    <3>2. mq[x] = IF \E j \in 1 .. n : ins[j] = x THEN NoCoin ELSE m[x]
      BY Zenon, <2>2
    <3>3. (\E j \in 1 .. n + 1 : ins[j] = x) <=> x = o \/ \E j \in 1 .. n : ins[j] = x
      BY Zenon, <1>1, <1>5
    <3> QED
      BY Zenon, <3>1, <3>2, <3>3
  <2>4. r.undo = Append(q.undo, m[o])
    BY Zenon, <1>4, <1>9, <2>1
  <2>5. /\ Len(r.undo) = Len(q.undo) + 1 /\ r.undo[Len(q.undo) + 1] = m[o]
        /\ \A k \in 1 .. Len(q.undo) : r.undo[k] = q.undo[k]
    <3>1. PICK c \in Coin : c = m[o]
      BY Zenon, <2>1
    <3>2. PICK u \in Seq(Coin) : u = q.undo
      BY Zenon, <1>3
    <3>3. /\ Len(Append(u, c)) = Len(u) + 1 /\ Append(u, c)[Len(u) + 1] = c
          /\ \A k \in 1 .. Len(u) : Append(u, c)[k] = u[k]
      BY AppendProperties
    <3> QED
      BY Zenon, <2>4, <3>1, <3>2, <3>3
  <2>6. /\ Len(q.undo) + 1 = Len(s.undo) + (n + 1)
        /\ \A k \in 1 .. Len(s.undo) : k \in 1 .. Len(q.undo)
        /\ \A j \in 1 .. n : Len(s.undo) + j \in 1 .. Len(q.undo)
    <3>1. Len(q.undo) = Len(s.undo) + n
      BY Zenon, <2>2
    <3>2. PICK a \in Nat, b \in Nat : a = Len(s.undo) /\ b = Len(q.undo)
      BY Zenon, <1>3, LenProperties
    <3>3. b = a + n
      BY Zenon, <3>1, <3>2
    <3>4. /\ b + 1 = a + (n + 1) /\ \A k \in 1 .. a : k \in 1 .. b
          /\ \A j \in 1 .. n : a + j \in 1 .. b
      BY <3>3
    <3> QED
      BY Zenon, <3>2, <3>4
  <2>7. \A j \in 1 .. n + 1 : r.undo[Len(s.undo) + j] = m[ins[j]]
    BY Zenon, <1>1, <1>5, <2>2, <2>5, <2>6
  <2>8. \A k \in 1 .. Len(s.undo) : r.undo[k] = s.undo[k]
    BY Zenon, <2>2, <2>5, <2>6
  <2>9. \A j \in 1 .. n + 1 : ins[j] \in DOMAIN r.view /\ r.view[ins[j]].coin = m[ins[j]]
    BY Zenon, <1>1, <1>4, <1>5, <1>6, <1>9, <2>1, <2>2
  <2> QED
    BY Zenon, <2>3, <2>5, <2>6, <2>7, <2>8, <2>9
<1> QED
  BY Zenon, <1>1, <1>2, <1>4, <1>8, <1>9 DEF Took

\* btc_view_spend.
LEMMA SpendLoop ==
  ASSUME DbType, NEW s \in State, NEW ins \in Seq(Outpoint),
         \A i, j \in 1 .. Len(ins) : ins[i] = ins[j] => i = j
  PROVE  Took(SpendInputs(s, ins), s, SaveView(s.view), ins, Len(ins))
<1>1. Len(ins) \in Nat /\ Len(ins) <= Len(ins)
  OBVIOUS
<1>0. PICK g : Spends(g, s, ins)
  BY Zenon, <1>1, SpendRuns
<1>2. /\ g[0] = s
      /\ \A i \in 1 .. Len(ins) : g[i] = SpendInput(g[i - 1], ins[i])
      /\ SpendInputs(s, ins) = g[Len(ins)]
  BY Zenon, <1>0 DEF Spends
<1> DEFINE m == SaveView(s.view)
           N == {n \in Nat : n <= Len(ins) => Took(g[n], s, m, ins, n)}
<1>3. 0 \in N
  <2>1. Took(s, s, m, ins, 0)
    BY Zenon, TookNone
  <2> QED
    BY Zenon, <1>2, <2>1
<1>4. ASSUME NEW n \in Nat, n \in N PROVE n + 1 \in N
  <2>1. n + 1 \in Nat
    OBVIOUS
  <2> SUFFICES ASSUME n + 1 <= Len(ins) PROVE Took(g[n + 1], s, m, ins, n + 1)
    BY Zenon, <2>1
  <2>2. n <= Len(ins) /\ n + 1 \in 1 .. Len(ins) /\ (n + 1) - 1 = n
    OBVIOUS
  <2>3. Took(g[n], s, m, ins, n)
    BY Zenon, <1>4, <2>2
  <2>4. g[n + 1] = SpendInput(g[n], ins[n + 1])
    BY Zenon, <1>2, <2>2
  <2> HIDE DEF m
  <2> QED
    <3>1. Took(SpendInput(g[n], ins[n + 1]), s, m, ins, n + 1)
      BY Zenon, <2>3, TookOne
    <3> QED
      BY Zenon, <2>4, <3>1
<1>5. \A n \in Nat : n \in N
  <2> HIDE DEF N
  <2> QED
    BY Zenon, <1>3, <1>4, Naturals
<1> QED
  BY Zenon, <1>1, <1>2, <1>5

\* The body of the loop of btc_chain_verify_inputs, from s to r.
Connected(r, s, t, h) ==
    LET m   == SaveView(s.view)
        ins == Inputs[t]
    IN  /\ r \in State
        /\ r.ok <=> /\ s.ok
                    /\ \A j \in 1 .. Len(ins) :
                        /\ m[ins[j]] # NoCoin
                        /\ m[ins[j]].coinbase => h - m[ins[j]].height >= Maturity
        /\ r.ok =>
            /\ \A x \in Outpoint : SaveView(r.view)[x] =
                    IF x \in Outputs[t] THEN [height |-> h, coinbase |-> t \in Coinbase]
                    ELSE IF Consumes(t, x) THEN NoCoin ELSE m[x]
            /\ Len(r.undo) = Len(s.undo) + Len(ins)
            /\ \A k \in 1 .. Len(s.undo) : r.undo[k] = s.undo[k]
            /\ \A j \in 1 .. Len(ins) : r.undo[Len(s.undo) + j] = m[ins[j]]

LEMMA InputsFacts ==
  ASSUME NEW t \in Tx
  PROVE  /\ Inputs[t] \in Seq(Outpoint) /\ Len(Inputs[t]) \in Nat
         /\ DOMAIN Inputs[t] = 1 .. Len(Inputs[t])
         /\ \A j \in 1 .. Len(Inputs[t]) : Inputs[t][j] \in Outpoint
         /\ \A i, j \in 1 .. Len(Inputs[t]) : Inputs[t][i] = Inputs[t][j] => i = j
         /\ \A x : Consumes(t, x) <=> \E j \in 1 .. Len(Inputs[t]) : Inputs[t][j] = x
<1>1. Inputs[t] \in Seq(Outpoint)
  BY Zenon, TxAssumption
<1>2. /\ Len(Inputs[t]) \in Nat /\ DOMAIN Inputs[t] = 1 .. Len(Inputs[t])
      /\ \A j \in 1 .. Len(Inputs[t]) : Inputs[t][j] \in Outpoint
  BY Zenon, <1>1, LenProperties, ElementOfSeq
<1>3. \A i, j \in DOMAIN Inputs[t] : Inputs[t][i] = Inputs[t][j] => i = j
  BY Zenon, TxAssumption
<1>4. \A x : Consumes(t, x) <=> \E j \in DOMAIN Inputs[t] : Inputs[t][j] = x
  BY Zenon DEF Consumes, Range
<1> QED
  BY Zenon, <1>1, <1>2, <1>3, <1>4

LEMMA ConnectOne ==
  ASSUME DbType, NEW s \in State, NEW t \in Tx, NEW h \in Nat
  PROVE  Connected(ConnectTx(s, t, h), s, t, h)
<1>1. PICK ins \in Seq(Outpoint) :
            /\ ins = Inputs[t] /\ DOMAIN ins = 1 .. Len(ins)
            /\ \A j \in 1 .. Len(ins) : ins[j] \in Outpoint
            /\ \A i, j \in 1 .. Len(ins) : ins[i] = ins[j] => i = j
            /\ \A x : Consumes(t, x) <=> \E j \in 1 .. Len(ins) : ins[j] = x
  BY Zenon, InputsFacts
<1>2. PICK q : q = SpendInputs(s, ins)
  BY Zenon
<1>3. PICK r : r = ConnectTx(s, t, h)
  BY Zenon
<1>4. PICK m : m = SaveView(s.view)
  BY Zenon
<1>5. Took(q, s, m, ins, Len(ins))
  BY Zenon, <1>1, <1>2, <1>4, SpendLoop
<1>6. /\ q \in State /\ (q.ok <=> s.ok /\ \A j \in 1 .. Len(ins) : m[ins[j]] # NoCoin)
      /\ q.ok =>
            /\ \A x \in Outpoint : SaveView(q.view)[x] =
                    IF \E j \in 1 .. Len(ins) : ins[j] = x THEN NoCoin ELSE m[x]
            /\ Len(q.undo) = Len(s.undo) + Len(ins)
            /\ \A k \in 1 .. Len(s.undo) : q.undo[k] = s.undo[k]
            /\ \A j \in 1 .. Len(ins) : q.undo[Len(s.undo) + j] = m[ins[j]]
            /\ \A j \in 1 .. Len(ins) : q.view[ins[j]].coin = m[ins[j]]
  BY Zenon, <1>5 DEF Took
<1>7. q.ok => (Mature(q.view, t, h) <=>
                 \A j \in 1 .. Len(ins) : m[ins[j]].coinbase => h - m[ins[j]].height >= Maturity)
  <2> SUFFICES ASSUME q.ok
               PROVE  Mature(q.view, t, h) <=>
                        \A j \in 1 .. Len(ins) : m[ins[j]].coinbase => h - m[ins[j]].height >= Maturity
    BY Zenon
  <2>1. Mature(q.view, t, h) <=>
            \A j \in 1 .. Len(ins) : q.view[ins[j]].coin.coinbase
                                        => h - q.view[ins[j]].coin.height >= Maturity
    BY Zenon, <1>1 DEF Mature
  <2>2. \A j \in 1 .. Len(ins) : q.view[ins[j]].coin = m[ins[j]]
    BY Zenon, <1>6
  <2> QED
    BY Zenon, <2>1, <2>2
<1> DEFINE good == \A j \in 1 .. Len(ins) :
                        /\ m[ins[j]] # NoCoin
                        /\ m[ins[j]].coinbase => h - m[ins[j]].height >= Maturity
<1>8. q.ok /\ Mature(q.view, t, h) <=> s.ok /\ good
  BY Zenon, <1>6, <1>7
<1>9. q.ok \in BOOLEAN /\ q.view \in View /\ q.undo \in Seq(Coin)
  BY Zenon, <1>6 DEF State
<1>10. CASE q.ok /\ Mature(q.view, t, h)
  <2> DEFINE w == AddOutputs(q.view, t, h, FALSE)
  <2>1. r = [q EXCEPT !.view = w]
    BY Zenon, <1>1, <1>2, <1>3, <1>10 DEF ConnectTx
  <2>2. /\ w \in View
        /\ \A x \in Outpoint : SaveView(w)[x] =
                    IF x \in Outputs[t] THEN [height |-> h, coinbase |-> t \in Coinbase]
                    ELSE SaveView(q.view)[x]
    <3>1. PICK f \in BOOLEAN : f = FALSE
      BY Zenon
    <3>2. Added(AddOutputs(q.view, t, h, f), q.view, t, h, f)
      BY Zenon, <1>9, AddSaved
    <3> QED
      BY Zenon, <3>1, <3>2 DEF Added
  <2> HIDE DEF w
  <2>3. r \in State /\ r.ok = q.ok /\ r.view = w /\ r.undo = q.undo
    BY Zenon, <1>6, <2>1, <2>2 DEF State
  <2>4. \A x \in Outpoint : SaveView(r.view)[x] =
                    IF x \in Outputs[t] THEN [height |-> h, coinbase |-> t \in Coinbase]
                    ELSE IF Consumes(t, x) THEN NoCoin ELSE m[x]
    <3> SUFFICES ASSUME NEW x \in Outpoint
                 PROVE  SaveView(r.view)[x] =
                            IF x \in Outputs[t] THEN [height |-> h, coinbase |-> t \in Coinbase]
                            ELSE IF Consumes(t, x) THEN NoCoin ELSE m[x]
      BY Zenon
    <3>1. SaveView(q.view)[x] = IF Consumes(t, x) THEN NoCoin ELSE m[x]
      <4>1. SaveView(q.view)[x] = IF \E j \in 1 .. Len(ins) : ins[j] = x THEN NoCoin ELSE m[x]
        BY Zenon, <1>6, <1>10
      <4> QED
        BY Zenon, <1>1, <4>1
    <3> QED
      BY Zenon, <2>2, <2>3, <3>1
  <2>5. r.ok /\ s.ok /\ good
    BY Zenon, <1>8, <1>10, <2>3
  <2>6. /\ Len(r.undo) = Len(s.undo) + Len(ins)
        /\ \A k \in 1 .. Len(s.undo) : r.undo[k] = s.undo[k]
        /\ \A j \in 1 .. Len(ins) : r.undo[Len(s.undo) + j] = m[ins[j]]
    BY Zenon, <1>6, <1>10, <2>3
  <2> QED
    <3>1. \A j \in 1 .. Len(Inputs[t]) :
                /\ SaveView(s.view)[Inputs[t][j]] # NoCoin
                /\ SaveView(s.view)[Inputs[t][j]].coinbase
                     => h - SaveView(s.view)[Inputs[t][j]].height >= Maturity
      BY Zenon, <1>1, <1>4, <2>5
    <3>2. /\ Len(r.undo) = Len(s.undo) + Len(Inputs[t])
          /\ \A j \in 1 .. Len(Inputs[t]) :
                r.undo[Len(s.undo) + j] = SaveView(s.view)[Inputs[t][j]]
      BY Zenon, <1>1, <1>4, <2>6
    <3>3. \A x \in Outpoint : SaveView(r.view)[x] =
                    IF x \in Outputs[t] THEN [height |-> h, coinbase |-> t \in Coinbase]
                    ELSE IF Consumes(t, x) THEN NoCoin ELSE SaveView(s.view)[x]
      BY Zenon, <1>4, <2>4
    <3>4. Connected(r, s, t, h)
      BY Zenon, <2>3, <2>5, <2>6, <3>1, <3>2, <3>3 DEF Connected
    <3> QED
      BY Zenon, <1>3, <3>4
<1>11. CASE ~(q.ok /\ Mature(q.view, t, h))
  <2>1. r = [q EXCEPT !.ok = FALSE]
    BY Zenon, <1>1, <1>2, <1>3, <1>11 DEF ConnectTx
  <2>2. r \in State /\ r.ok = FALSE
    BY Zenon, <1>6, <2>1 DEF State
  <2>3. ~(s.ok /\ good)
    BY Zenon, <1>8, <1>11
  <2> QED
    <3>1. ~(/\ s.ok
            /\ \A j \in 1 .. Len(Inputs[t]) :
                /\ SaveView(s.view)[Inputs[t][j]] # NoCoin
                /\ SaveView(s.view)[Inputs[t][j]].coinbase
                     => h - SaveView(s.view)[Inputs[t][j]].height >= Maturity)
      BY Zenon, <1>1, <1>4, <2>3
    <3>2. Connected(r, s, t, h)
      BY Zenon, <2>2, <3>1 DEF Connected
    <3> QED
      BY Zenon, <1>3, <3>2
<1> QED
  BY Zenon, <1>10, <1>11

\* Both loops begin with an empty view.
Start(undo) == [ok |-> TRUE, view |-> EmptyView, undo |-> undo]

\* The turns of the loop of btc_chain_verify_inputs.
Verifies(g, txs) ==
    /\ g[0] = Start(<< >>)
    /\ \A i \in 1 .. Len(txs) : g[i] = ConnectTx(g[i - 1], txs[i], Len(chain) + 1)
    /\ VerifyInputs(txs) = g[Len(txs)]

LEMMA VerifyRuns ==
  ASSUME NEW txs, Len(txs) \in Nat
  PROVE  \E g : Verifies(g, txs)
<1> DEFINE good(f, k) == f = [i \in 0 .. k |-> IF i = 0 THEN Start(<< >>) ELSE ConnectTx(f[i - 1], txs[i], Len(chain) + 1)]
           N == {k \in Nat : \E f : good(f, k)}
<1>1. 0 \in N
  <2> DEFINE f == [i \in 0 .. 0 |-> Start(<< >>)]
  <2>1. \A i \in 0 .. 0 : i = 0
    OBVIOUS
  <2>2. good(f, 0)
    BY Zenon, <2>1
  <2> HIDE DEF good
  <2> QED
    BY Zenon, <2>2
<1>2. ASSUME NEW k \in Nat, k \in N PROVE k + 1 \in N
  <2>1. PICK f : good(f, k)
    BY Zenon, <1>2
  <2> DEFINE h == [i \in 0 .. k + 1 |-> IF i = 0 THEN Start(<< >>) ELSE ConnectTx(f[i - 1], txs[i], Len(chain) + 1)]
  <2>2. \A i \in 0 .. k + 1 : i # 0 => i - 1 \in 0 .. k /\ i - 1 \in 0 .. k + 1
    OBVIOUS
  <2>3. \A j \in 0 .. k : j \in 0 .. k + 1
    OBVIOUS
  <2>4. \A j \in 0 .. k : h[j] = f[j]
    BY Zenon, <2>1, <2>3
  <2>5. \A i \in 0 .. k + 1 : i # 0 => h[i - 1] = f[i - 1]
    BY Zenon, <2>2, <2>4
  <2>6. \A i \in 0 .. k + 1 : h[i] = IF i = 0 THEN Start(<< >>) ELSE ConnectTx(h[i - 1], txs[i], Len(chain) + 1)
    <3> SUFFICES ASSUME NEW i \in 0 .. k + 1
                 PROVE  h[i] = IF i = 0 THEN Start(<< >>) ELSE ConnectTx(h[i - 1], txs[i], Len(chain) + 1)
      BY Zenon
    <3>1. h[i] = IF i = 0 THEN Start(<< >>) ELSE ConnectTx(f[i - 1], txs[i], Len(chain) + 1)
      BY Zenon
    <3>2. i # 0 => h[i - 1] = f[i - 1]
      BY Zenon, <2>5
    <3> HIDE DEF h
    <3> QED
      BY Zenon, <3>1, <3>2
  <2>7. h = [i \in 0 .. k + 1 |-> h[i]]
    BY Zenon
  <2>8. good(h, k + 1)
    <3> HIDE DEF h
    <3> QED
      BY Zenon, <2>6, <2>7
  <2>9. k + 1 \in Nat
    OBVIOUS
  <2> HIDE DEF good
  <2> QED
    BY Zenon, <2>8, <2>9
<1>3. \A k \in Nat : k \in N
  <2> HIDE DEF N
  <2> QED
    BY Zenon, <1>1, <1>2, Naturals
<1>4. \E f : good(f, Len(txs))
  <2> HIDE DEF good
  <2> QED
    BY Zenon, <1>3
<1> DEFINE g == CHOOSE f : f = [i \in 0 .. Len(txs) |-> IF i = 0 THEN Start(<< >>) ELSE ConnectTx(f[i - 1], txs[i], Len(chain) + 1)]
<1>5. g = [i \in 0 .. Len(txs) |-> IF i = 0 THEN Start(<< >>) ELSE ConnectTx(g[i - 1], txs[i], Len(chain) + 1)]
  BY Zenon, <1>4
<1>6. VerifyInputs(txs) = g[Len(txs)]
  BY Zenon DEF VerifyInputs, Start
<1> HIDE DEF g
<1>7. \A i \in 0 .. Len(txs) : g[i] = IF i = 0 THEN Start(<< >>) ELSE ConnectTx(g[i - 1], txs[i], Len(chain) + 1)
  BY Zenon, <1>5
<1>8. 0 \in 0 .. Len(txs) /\ \A i \in 1 .. Len(txs) : i \in 0 .. Len(txs) /\ i # 0
  OBVIOUS
<1> QED
  BY Zenon, <1>6, <1>7, <1>8 DEF Verifies


\* The turns of the inner loop of btc_chaindb_disconnect_block.
Pops(g, s, ins) ==
    /\ g[0] = s
    /\ \A i \in 1 .. Len(ins) : g[i] = PopInput(g[i - 1], ins[Len(ins) + 1 - i])
    /\ PopInputs(s, ins) = g[Len(ins)]

LEMMA PopRuns ==
  ASSUME NEW s, NEW ins, Len(ins) \in Nat
  PROVE  \E g : Pops(g, s, ins)
<1> DEFINE good(f, k) == f = [i \in 0 .. k |-> IF i = 0 THEN s ELSE PopInput(f[i - 1], ins[Len(ins) + 1 - i])]
           N == {k \in Nat : \E f : good(f, k)}
<1>1. 0 \in N
  <2> DEFINE f == [i \in 0 .. 0 |-> s]
  <2>1. \A i \in 0 .. 0 : i = 0
    OBVIOUS
  <2>2. good(f, 0)
    BY Zenon, <2>1
  <2> HIDE DEF good
  <2> QED
    BY Zenon, <2>2
<1>2. ASSUME NEW k \in Nat, k \in N PROVE k + 1 \in N
  <2>1. PICK f : good(f, k)
    BY Zenon, <1>2
  <2> DEFINE h == [i \in 0 .. k + 1 |-> IF i = 0 THEN s ELSE PopInput(f[i - 1], ins[Len(ins) + 1 - i])]
  <2>2. \A i \in 0 .. k + 1 : i # 0 => i - 1 \in 0 .. k /\ i - 1 \in 0 .. k + 1
    OBVIOUS
  <2>3. \A j \in 0 .. k : j \in 0 .. k + 1
    OBVIOUS
  <2>4. \A j \in 0 .. k : h[j] = f[j]
    BY Zenon, <2>1, <2>3
  <2>5. \A i \in 0 .. k + 1 : i # 0 => h[i - 1] = f[i - 1]
    BY Zenon, <2>2, <2>4
  <2>6. \A i \in 0 .. k + 1 : h[i] = IF i = 0 THEN s ELSE PopInput(h[i - 1], ins[Len(ins) + 1 - i])
    <3> SUFFICES ASSUME NEW i \in 0 .. k + 1
                 PROVE  h[i] = IF i = 0 THEN s ELSE PopInput(h[i - 1], ins[Len(ins) + 1 - i])
      BY Zenon
    <3>1. h[i] = IF i = 0 THEN s ELSE PopInput(f[i - 1], ins[Len(ins) + 1 - i])
      BY Zenon
    <3>2. i # 0 => h[i - 1] = f[i - 1]
      BY Zenon, <2>5
    <3> HIDE DEF h
    <3> QED
      BY Zenon, <3>1, <3>2
  <2>7. h = [i \in 0 .. k + 1 |-> h[i]]
    BY Zenon
  <2>8. good(h, k + 1)
    <3> HIDE DEF h
    <3> QED
      BY Zenon, <2>6, <2>7
  <2>9. k + 1 \in Nat
    OBVIOUS
  <2> HIDE DEF good
  <2> QED
    BY Zenon, <2>8, <2>9
<1>3. \A k \in Nat : k \in N
  <2> HIDE DEF N
  <2> QED
    BY Zenon, <1>1, <1>2, Naturals
<1>4. \E f : good(f, Len(ins))
  <2> HIDE DEF good
  <2> QED
    BY Zenon, <1>3
<1> DEFINE g == CHOOSE f : f = [i \in 0 .. Len(ins) |-> IF i = 0 THEN s ELSE PopInput(f[i - 1], ins[Len(ins) + 1 - i])]
<1>5. g = [i \in 0 .. Len(ins) |-> IF i = 0 THEN s ELSE PopInput(g[i - 1], ins[Len(ins) + 1 - i])]
  BY Zenon, <1>4
<1>6. PopInputs(s, ins) = g[Len(ins)]
  BY Zenon DEF PopInputs
<1> HIDE DEF g
<1>7. \A i \in 0 .. Len(ins) : g[i] = IF i = 0 THEN s ELSE PopInput(g[i - 1], ins[Len(ins) + 1 - i])
  BY Zenon, <1>5
<1>8. 0 \in 0 .. Len(ins) /\ \A i \in 1 .. Len(ins) : i \in 0 .. Len(ins) /\ i # 0
  OBVIOUS
<1> QED
  BY Zenon, <1>6, <1>7, <1>8 DEF Pops


\* The turns of the outer loop.
Reverts(g, txs, undo, height) ==
    /\ g[0] = Start(undo)
    /\ \A i \in 1 .. Len(txs) : g[i] = RevertTx(g[i - 1], txs[Len(txs) + 1 - i], height)
    /\ RevertBlock(txs, undo, height) = g[Len(txs)]

LEMMA RevertRuns ==
  ASSUME NEW txs, NEW undo, NEW height, Len(txs) \in Nat
  PROVE  \E g : Reverts(g, txs, undo, height)
<1> DEFINE good(f, k) == f = [i \in 0 .. k |-> IF i = 0 THEN Start(undo) ELSE RevertTx(f[i - 1], txs[Len(txs) + 1 - i], height)]
           N == {k \in Nat : \E f : good(f, k)}
<1>1. 0 \in N
  <2> DEFINE f == [i \in 0 .. 0 |-> Start(undo)]
  <2>1. \A i \in 0 .. 0 : i = 0
    OBVIOUS
  <2>2. good(f, 0)
    BY Zenon, <2>1
  <2> HIDE DEF good
  <2> QED
    BY Zenon, <2>2
<1>2. ASSUME NEW k \in Nat, k \in N PROVE k + 1 \in N
  <2>1. PICK f : good(f, k)
    BY Zenon, <1>2
  <2> DEFINE h == [i \in 0 .. k + 1 |-> IF i = 0 THEN Start(undo) ELSE RevertTx(f[i - 1], txs[Len(txs) + 1 - i], height)]
  <2>2. \A i \in 0 .. k + 1 : i # 0 => i - 1 \in 0 .. k /\ i - 1 \in 0 .. k + 1
    OBVIOUS
  <2>3. \A j \in 0 .. k : j \in 0 .. k + 1
    OBVIOUS
  <2>4. \A j \in 0 .. k : h[j] = f[j]
    BY Zenon, <2>1, <2>3
  <2>5. \A i \in 0 .. k + 1 : i # 0 => h[i - 1] = f[i - 1]
    BY Zenon, <2>2, <2>4
  <2>6. \A i \in 0 .. k + 1 : h[i] = IF i = 0 THEN Start(undo) ELSE RevertTx(h[i - 1], txs[Len(txs) + 1 - i], height)
    <3> SUFFICES ASSUME NEW i \in 0 .. k + 1
                 PROVE  h[i] = IF i = 0 THEN Start(undo) ELSE RevertTx(h[i - 1], txs[Len(txs) + 1 - i], height)
      BY Zenon
    <3>1. h[i] = IF i = 0 THEN Start(undo) ELSE RevertTx(f[i - 1], txs[Len(txs) + 1 - i], height)
      BY Zenon
    <3>2. i # 0 => h[i - 1] = f[i - 1]
      BY Zenon, <2>5
    <3> HIDE DEF h
    <3> QED
      BY Zenon, <3>1, <3>2
  <2>7. h = [i \in 0 .. k + 1 |-> h[i]]
    BY Zenon
  <2>8. good(h, k + 1)
    <3> HIDE DEF h
    <3> QED
      BY Zenon, <2>6, <2>7
  <2>9. k + 1 \in Nat
    OBVIOUS
  <2> HIDE DEF good
  <2> QED
    BY Zenon, <2>8, <2>9
<1>3. \A k \in Nat : k \in N
  <2> HIDE DEF N
  <2> QED
    BY Zenon, <1>1, <1>2, Naturals
<1>4. \E f : good(f, Len(txs))
  <2> HIDE DEF good
  <2> QED
    BY Zenon, <1>3
<1> DEFINE g == CHOOSE f : f = [i \in 0 .. Len(txs) |-> IF i = 0 THEN Start(undo) ELSE RevertTx(f[i - 1], txs[Len(txs) + 1 - i], height)]
<1>5. g = [i \in 0 .. Len(txs) |-> IF i = 0 THEN Start(undo) ELSE RevertTx(g[i - 1], txs[Len(txs) + 1 - i], height)]
  BY Zenon, <1>4
<1>6. RevertBlock(txs, undo, height) = g[Len(txs)]
  BY Zenon DEF RevertBlock, Start
<1> HIDE DEF g
<1>7. \A i \in 0 .. Len(txs) : g[i] = IF i = 0 THEN Start(undo) ELSE RevertTx(g[i - 1], txs[Len(txs) + 1 - i], height)
  BY Zenon, <1>5
<1>8. 0 \in 0 .. Len(txs) /\ \A i \in 1 .. Len(txs) : i \in 0 .. Len(txs) /\ i # 0
  OBVIOUS
<1> QED
  BY Zenon, <1>6, <1>7, <1>8 DEF Reverts

-----------------------------------------------------------------------------
(* A block against the history.                                            *)

\* After "base" transactions, hist goes on with those of a block at height h.
Continues(hist, base, txs, h) ==
    /\ hist \in Seq(Record) /\ base \in Nat /\ txs \in Seq(Tx) /\ h \in Nat
    /\ Len(hist) = base + Len(txs)
    /\ \A i \in 1 .. Len(txs) : hist[base + i] = [tx |-> txs[i], height |-> h]

\* The inputs of transaction n of hist are there to be consumed at height h.
SpendsAt(hist, n, h) ==
    \A o \in Range(Inputs[hist[n].tx]) :
        LET c == CoinOf(hist, n - 1, o)
        IN  /\ c # NoCoin
            /\ c.coinbase => h - c.height >= Maturity

ConsumedBy(hist, base, txs) ==
    [k \in DOMAIN txs |->
        [j \in DOMAIN Inputs[txs[k]] |-> CoinOf(hist, base + k - 1, Inputs[txs[k]][j])]]

\* The undo list after n transactions of the block.
UndoAt(hist, base, txs, n) == FlattenSeq(SubSeq(ConsumedBy(hist, base, txs), 1, n))

LEMMA PlaceFacts ==
  ASSUME NEW hist, NEW base, NEW txs, NEW h, Continues(hist, base, txs, h),
         NEW n \in Nat, n + 1 <= Len(txs)
  PROVE  /\ n + 1 \in 1 .. Len(txs) /\ txs[n + 1] \in Tx /\ base + n \in Nat
         /\ base + (n + 1) = (base + n) + 1 /\ (base + (n + 1)) - 1 = base + n
         /\ (base + n) + 1 - 1 = base + n
         /\ hist[base + (n + 1)] = [tx |-> txs[n + 1], height |-> h]
         /\ \A x : CoinOf(hist, base + n, x) \in MaybeCoin
<1>1. /\ hist \in Seq(Record) /\ base \in Nat /\ txs \in Seq(Tx) /\ h \in Nat
      /\ Len(hist) = base + Len(txs)
  BY Zenon DEF Continues
<1>2. /\ n + 1 \in 1 .. Len(txs) /\ txs[n + 1] \in Tx /\ base + n \in Nat
      /\ base + (n + 1) = (base + n) + 1 /\ (base + (n + 1)) - 1 = base + n
      /\ (base + n) + 1 - 1 = base + n
      /\ \A p \in 1 .. base + n : p \in 1 .. Len(hist)
  BY <1>1
<1>3. hist[base + (n + 1)] = [tx |-> txs[n + 1], height |-> h]
  BY Zenon, <1>2 DEF Continues
<1>4. \A p \in 1 .. base + n : hist[p] \in Record
  BY Zenon, <1>1, <1>2, ElementOfSeq
<1>5. \A x : CoinOf(hist, base + n, x) \in MaybeCoin
  BY Zenon, <1>2, <1>4, CoinType
<1> QED
  BY Zenon, <1>2, <1>3, <1>5

\* cs holds, for every input of every transaction of the block, its coin.
Tallies(cs, hist, base, txs) ==
    /\ cs \in Seq(Seq(MaybeCoin)) /\ Len(cs) = Len(txs)
    /\ \A k \in 1 .. Len(txs) :
           /\ cs[k] \in Seq(MaybeCoin) /\ Len(cs[k]) = Len(Inputs[txs[k]])
           /\ \A j \in 1 .. Len(Inputs[txs[k]]) :
                   cs[k][j] = CoinOf(hist, base + k - 1, Inputs[txs[k]][j])

LEMMA ConsumedType ==
  ASSUME NEW hist, NEW base, NEW txs, NEW h, Continues(hist, base, txs, h)
  PROVE  Tallies(ConsumedBy(hist, base, txs), hist, base, txs)
<1> DEFINE cs == ConsumedBy(hist, base, txs)
           part(k) == [j \in DOMAIN Inputs[txs[k]] |-> CoinOf(hist, base + k - 1, Inputs[txs[k]][j])]
<1>1. txs \in Seq(Tx) /\ base \in Nat
  BY Zenon DEF Continues
<1>2. DOMAIN txs = 1 .. Len(txs) /\ Len(txs) \in Nat
  BY Zenon, <1>1, LenProperties
<1>3. ASSUME NEW k \in 1 .. Len(txs)
      PROVE  /\ part(k) \in Seq(MaybeCoin) /\ Len(part(k)) = Len(Inputs[txs[k]])
             /\ \A j \in 1 .. Len(Inputs[txs[k]]) :
                    part(k)[j] = CoinOf(hist, base + k - 1, Inputs[txs[k]][j])
  <2>1. PICK n \in Nat : n + 1 = k /\ base + n = base + k - 1
    BY <1>1, <1>2
  <2>2. n + 1 <= Len(txs)
    BY <1>2, <2>1
  <2>3. txs[k] \in Tx /\ \A x : CoinOf(hist, base + k - 1, x) \in MaybeCoin
    BY Zenon, <2>1, <2>2, PlaceFacts
  <2>4. DOMAIN Inputs[txs[k]] = 1 .. Len(Inputs[txs[k]]) /\ Len(Inputs[txs[k]]) \in Nat
    BY Zenon, <2>3, InputsFacts
  <2>5. part(k) \in [1 .. Len(Inputs[txs[k]]) -> MaybeCoin]
    BY Zenon, <2>3, <2>4
  <2>6. \A j \in 1 .. Len(Inputs[txs[k]]) :
                    part(k)[j] = CoinOf(hist, base + k - 1, Inputs[txs[k]][j])
    BY Zenon, <2>4
  <2> HIDE DEF part
  <2> QED
    BY Zenon, <2>4, <2>5, <2>6, SeqOfFun
<1>4. cs = [k \in 1 .. Len(txs) |-> part(k)]
  BY Zenon, <1>2 DEF ConsumedBy
<1> HIDE DEF cs, part
<1>5. cs \in [1 .. Len(txs) -> Seq(MaybeCoin)] /\ \A k \in 1 .. Len(txs) : cs[k] = part(k)
  BY Zenon, <1>3, <1>4
<1>6. cs \in Seq(Seq(MaybeCoin)) /\ Len(cs) = Len(txs)
  BY Zenon, <1>2, <1>5, SeqOfFun
<1> QED
  BY Zenon, <1>3, <1>5, <1>6 DEF cs, Tallies

LEMMA ConsumedLen ==
  ASSUME NEW hist, NEW base, NEW txs, NEW h, Continues(hist, base, txs, h)
  PROVE  Len(ConsumedBy(hist, base, txs)) = Len(txs)
<1>1. Tallies(ConsumedBy(hist, base, txs), hist, base, txs)
  BY Zenon, ConsumedType
<1> QED
  BY Zenon, <1>1 DEF Tallies

\* What the first n turns of the loop of btc_chain_verify_inputs do.
Verified(r, hist, base, txs, h, n) ==
    /\ r \in State
    /\ r.ok <=> \A i \in 1 .. n : SpendsAt(hist, base + i, h)
    /\ r.ok =>
        /\ \A x \in Outpoint : SaveView(r.view)[x] = CoinOf(hist, base + n, x)
        /\ r.undo = UndoAt(hist, base, txs, n)

LEMMA VerifiedNone ==
  ASSUME DbType, NEW hist, NEW base, NEW txs, NEW h, Continues(hist, base, txs, h),
         \A x \in Outpoint : db[x] = CoinOf(hist, base, x)
  PROVE  Verified(Start(<< >>), hist, base, txs, h, 0)
<1>1. /\ EmptyView \in View /\ \A x \in Outpoint : SaveView(EmptyView)[x] = db[x]
  BY Zenon, EmptySaved
<1>2. << >> \in Seq(Coin)
  BY Zenon, EmptySeq
<1> DEFINE r == Start(<< >>)
<1>3. r \in State /\ r.ok = TRUE /\ r.view = EmptyView /\ r.undo = << >>
  BY Zenon, <1>1, <1>2 DEF State, Start
<1>4. base + 0 = base /\ \A i \in 1 .. 0 : FALSE
  BY DEF Continues
<1>5. SubSeq(ConsumedBy(hist, base, txs), 1, 0) = << >>
  OBVIOUS
<1> HIDE DEF r
<1> QED
  BY Zenon, <1>1, <1>3, <1>4, <1>5, FlattenEmpty DEF Verified, r, UndoAt

\* A list grown by the coins that the inputs ins consume is a longer flattening.
Grows(old, new, hist, n, ins) ==
    /\ Len(new) = Len(old) + Len(ins)
    /\ \A k \in 1 .. Len(old) : new[k] = old[k]
    /\ \A j \in 1 .. Len(ins) : new[Len(old) + j] = CoinOf(hist, n, ins[j])

LEMMA GrownUndo ==
  ASSUME NEW hist, NEW base, NEW txs, NEW h, Continues(hist, base, txs, h),
         NEW n \in Nat, n + 1 <= Len(txs),
         UndoAt(hist, base, txs, n) \in Seq(Coin), NEW new \in Seq(Coin)
  PROVE  new = UndoAt(hist, base, txs, n + 1)
            <=> Grows(UndoAt(hist, base, txs, n), new, hist, base + n, Inputs[txs[n + 1]])
<1>0. PICK old \in Seq(Coin) : old = UndoAt(hist, base, txs, n)
  BY Zenon
<1> DEFINE cs == ConsumedBy(hist, base, txs)
<1>1. n + 1 \in 1 .. Len(txs) /\ (n + 1) - 1 = n
  BY DEF Continues
<1>2. /\ cs \in Seq(Seq(MaybeCoin)) /\ Len(cs) = Len(txs)
      /\ \A k \in 1 .. Len(txs) :
            /\ cs[k] \in Seq(MaybeCoin) /\ Len(cs[k]) = Len(Inputs[txs[k]])
            /\ \A j \in 1 .. Len(Inputs[txs[k]]) :
                    cs[k][j] = CoinOf(hist, base + k - 1, Inputs[txs[k]][j])
  <2>1. Tallies(ConsumedBy(hist, base, txs), hist, base, txs)
    BY Zenon, ConsumedType
  <2> QED
    BY Zenon, <2>1 DEF Tallies
<1> HIDE DEF cs
<1>3. PICK c \in Seq(MaybeCoin) : c = cs[n + 1]
  BY Zenon, <1>1, <1>2
<1>4. base + (n + 1) - 1 = base + n
  BY DEF Continues
<1>5. /\ Len(c) = Len(Inputs[txs[n + 1]])
      /\ \A j \in 1 .. Len(Inputs[txs[n + 1]]) :
            c[j] = CoinOf(hist, base + n, Inputs[txs[n + 1]][j])
  <2>1. /\ Len(cs[n + 1]) = Len(Inputs[txs[n + 1]])
        /\ \A j \in 1 .. Len(Inputs[txs[n + 1]]) :
            cs[n + 1][j] = CoinOf(hist, base + (n + 1) - 1, Inputs[txs[n + 1]][j])
    BY Zenon, <1>1, <1>2
  <2> QED
    BY Zenon, <1>3, <1>4, <2>1
<1>6. FlattenSeq(SubSeq(cs, 1, n + 1)) = old \o c
  <2>1. n + 1 \in 1 .. Len(cs)
    BY Zenon, <1>1, <1>2
  <2>2. FlattenSeq(SubSeq(cs, 1, n + 1)) = FlattenSeq(SubSeq(cs, 1, (n + 1) - 1)) \o cs[n + 1]
    BY Zenon, <1>2, <2>1, FlattenPrefix
  <2> QED
    BY Zenon, <1>0, <1>1, <1>3, <2>2 DEF cs, UndoAt
<1>7. old \in Seq(MaybeCoin) /\ new \in Seq(MaybeCoin)
  BY DEF MaybeCoin
<1>8. new = old \o c <=> /\ Len(new) = Len(old) + Len(c)
                         /\ \A k \in 1 .. Len(old) : new[k] = old[k]
                         /\ \A j \in 1 .. Len(c) : new[Len(old) + j] = c[j]
  <2>1. /\ old \o c \in Seq(MaybeCoin) /\ Len(old \o c) = Len(old) + Len(c)
        /\ \A i \in 1 .. Len(old) : (old \o c)[i] = old[i]
        /\ \A i \in 1 .. Len(c) : (old \o c)[Len(old) + i] = c[i]
    BY <1>7, Concat
  <2>2. ASSUME Len(new) = Len(old) + Len(c),
               \A k \in 1 .. Len(old) : new[k] = old[k],
               \A j \in 1 .. Len(c) : new[Len(old) + j] = c[j]
        PROVE  new = old \o c
    <3>1. ASSUME NEW i \in 1 .. Len(new) PROVE new[i] = (old \o c)[i]
      <4>1. i \in 1 .. Len(old) \/ (i - Len(old) \in 1 .. Len(c) /\ Len(old) + (i - Len(old)) = i)
        BY <2>2
      <4>2. CASE i \in 1 .. Len(old)
        BY Zenon, <2>1, <2>2, <4>2
      <4>3. ASSUME NEW j \in 1 .. Len(c), Len(old) + j = i PROVE new[i] = (old \o c)[i]
        <5>1. new[Len(old) + j] = c[j] /\ (old \o c)[Len(old) + j] = c[j]
          BY Zenon, <2>1, <2>2
        <5> QED
          BY Zenon, <4>3, <5>1
      <4> QED
        BY Zenon, <4>1, <4>2, <4>3
    <3> QED
      BY <1>7, <2>1, <2>2, <3>1, SeqEqual
  <2> QED
    BY Zenon, <2>1, <2>2
<1>9. /\ \A j \in 1 .. Len(c) : new[Len(old) + j] = c[j]
      <=> \A j \in 1 .. Len(Inputs[txs[n + 1]]) :
                    new[Len(old) + j] = CoinOf(hist, base + n, Inputs[txs[n + 1]][j])
  BY Zenon, <1>5
<1> QED
  BY Zenon, <1>0, <1>5, <1>6, <1>8, <1>9 DEF cs, Grows, UndoAt

LEMMA VerifiedOne ==
  ASSUME DbType, NEW hist, NEW base, NEW txs, NEW h, Continues(hist, base, txs, h),
         NEW n \in Nat, n + 1 <= Len(txs), NEW q, Verified(q, hist, base, txs, h, n)
  PROVE  Verified(ConnectTx(q, txs[n + 1], h), hist, base, txs, h, n + 1)
<1>1. /\ n + 1 \in 1 .. Len(txs) /\ txs[n + 1] \in Tx /\ base + n \in Nat
      /\ base + (n + 1) = (base + n) + 1 /\ (base + (n + 1)) - 1 = base + n
      /\ (base + n) + 1 - 1 = base + n
      /\ hist[base + (n + 1)] = [tx |-> txs[n + 1], height |-> h]
      /\ \A x : CoinOf(hist, base + n, x) \in MaybeCoin
  BY PlaceFacts
<1>2. PICK t \in Tx : t = txs[n + 1]
  BY Zenon, <1>1
<1>3. hist[(base + n) + 1].tx = t /\ hist[(base + n) + 1].height = h
  BY <1>1, <1>2
<1>4. PICK r : r = ConnectTx(q, t, h)
  BY Zenon
<1>5. q \in State /\ h \in Nat
  BY Zenon DEF Verified, Continues
<1>6. Connected(r, q, t, h)
  BY Zenon, <1>4, <1>5, ConnectOne
<1>7. PICK m : m = SaveView(q.view)
  BY Zenon
<1>8. PICK ins \in Seq(Outpoint) :
            /\ ins = Inputs[t] /\ DOMAIN ins = 1 .. Len(ins)
            /\ \A j \in 1 .. Len(ins) : ins[j] \in Outpoint
            /\ \A x : Consumes(t, x) <=> \E j \in 1 .. Len(ins) : ins[j] = x
  BY Zenon, InputsFacts
<1> DEFINE able(c) == c # NoCoin /\ (c.coinbase => h - c.height >= Maturity)
<1>9. /\ r \in State
      /\ r.ok <=> q.ok /\ \A j \in 1 .. Len(ins) : able(m[ins[j]])
      /\ r.ok =>
            /\ \A x \in Outpoint : SaveView(r.view)[x] =
                    IF x \in Outputs[t] THEN [height |-> h, coinbase |-> t \in Coinbase]
                    ELSE IF Consumes(t, x) THEN NoCoin ELSE m[x]
            /\ Len(r.undo) = Len(q.undo) + Len(ins)
            /\ \A k \in 1 .. Len(q.undo) : r.undo[k] = q.undo[k]
            /\ \A j \in 1 .. Len(ins) : r.undo[Len(q.undo) + j] = m[ins[j]]
  BY Zenon, <1>6, <1>7, <1>8 DEF Connected
<1>10. q.ok => \A x \in Outpoint : m[x] = CoinOf(hist, base + n, x)
  BY Zenon, <1>7 DEF Verified
<1> HIDE DEF able
<1>11. SpendsAt(hist, base + (n + 1), h) <=>
            \A j \in 1 .. Len(ins) : able(CoinOf(hist, base + n, ins[j]))
  <2>1. SpendsAt(hist, base + (n + 1), h) <=>
            \A o \in Range(Inputs[t]) : able(CoinOf(hist, base + n, o))
    <3>1. hist[base + (n + 1)].tx = t
      BY Zenon, <1>1, <1>3
    <3> QED
      BY Zenon, <1>1, <3>1 DEF SpendsAt, able
  <2>2. \A o : o \in Range(Inputs[t]) <=> \E j \in 1 .. Len(ins) : ins[j] = o
    BY Zenon, <1>8 DEF Consumes
  <2> QED
    BY Zenon, <2>1, <2>2
<1>12. /\ \A i \in 1 .. n : i \in 1 .. n + 1
       /\ \A i \in 1 .. n + 1 : i \in 1 .. n \/ i = n + 1
       /\ n + 1 \in 1 .. n + 1
  OBVIOUS
<1>13. r.ok <=> \A i \in 1 .. n + 1 : SpendsAt(hist, base + i, h)
  <2>1. q.ok <=> \A i \in 1 .. n : SpendsAt(hist, base + i, h)
    BY Zenon DEF Verified
  <2>2. r.ok <=> q.ok /\ SpendsAt(hist, base + (n + 1), h)
    <3>1. r.ok <=> q.ok /\ \A j \in 1 .. Len(ins) : able(m[ins[j]])
      BY Zenon, <1>9
    <3>2. ASSUME q.ok, NEW j \in 1 .. Len(ins) PROVE m[ins[j]] = CoinOf(hist, base + n, ins[j])
      BY Zenon, <1>8, <1>10, <3>2
    <3>3. q.ok => ((\A j \in 1 .. Len(ins) : able(m[ins[j]])) <=>
                    \A j \in 1 .. Len(ins) : able(CoinOf(hist, base + n, ins[j])))
      BY Zenon, <3>2
    <3> QED
      BY Zenon, <1>11, <3>1, <3>3
  <2> QED
    BY Zenon, <1>12, <2>1, <2>2
<1>14. ASSUME r.ok
       PROVE  /\ \A x \in Outpoint : SaveView(r.view)[x] = CoinOf(hist, base + (n + 1), x)
              /\ r.undo = UndoAt(hist, base, txs, n + 1)
  <2>1. q.ok /\ \A x \in Outpoint : m[x] = CoinOf(hist, base + n, x)
    BY Zenon, <1>9, <1>10, <1>14
  <2>2. ASSUME NEW x \in Outpoint PROVE SaveView(r.view)[x] = CoinOf(hist, base + (n + 1), x)
    <3>1. SaveView(r.view)[x] =
                    IF x \in Outputs[t] THEN [height |-> h, coinbase |-> t \in Coinbase]
                    ELSE IF Consumes(t, x) THEN NoCoin ELSE CoinOf(hist, base + n, x)
      BY Zenon, <1>9, <1>14, <2>1
    <3>2. CoinOf(hist, (base + n) + 1, x) =
            IF x \in Outputs[hist[(base + n) + 1].tx]
            THEN [height |-> hist[(base + n) + 1].height,
                  coinbase |-> hist[(base + n) + 1].tx \in Coinbase]
            ELSE IF Consumes(hist[(base + n) + 1].tx, x) THEN NoCoin ELSE CoinOf(hist, base + n, x)
      BY Zenon, <1>1, CoinStep
    <3>3. CoinOf(hist, (base + n) + 1, x) =
                    IF x \in Outputs[t] THEN [height |-> h, coinbase |-> t \in Coinbase]
                    ELSE IF Consumes(t, x) THEN NoCoin ELSE CoinOf(hist, base + n, x)
      BY Zenon, <1>3, <3>2
    <3> QED
      BY Zenon, <1>1, <3>1, <3>3
  <2>3. q.undo \in Seq(Coin) /\ r.undo \in Seq(Coin)
    BY Zenon, <1>5, <1>9 DEF State
  <2>4. q.undo = UndoAt(hist, base, txs, n)
    BY Zenon, <2>1 DEF Verified
  <2>5. /\ Len(r.undo) = Len(q.undo) + Len(Inputs[txs[n + 1]])
        /\ \A k \in 1 .. Len(q.undo) : r.undo[k] = q.undo[k]
        /\ \A j \in 1 .. Len(Inputs[txs[n + 1]]) :
                r.undo[Len(q.undo) + j] = CoinOf(hist, base + n, Inputs[txs[n + 1]][j])
    <3>1. \A j \in 1 .. Len(ins) : r.undo[Len(q.undo) + j] = CoinOf(hist, base + n, ins[j])
      BY Zenon, <1>8, <1>9, <1>14, <2>1
    <3>2. ins = Inputs[txs[n + 1]]
      BY Zenon, <1>2, <1>8
    <3> QED
      BY Zenon, <1>9, <1>14, <3>1, <3>2
  <2> QED
    <3>1. PICK new \in Seq(Coin) : new = r.undo
      BY Zenon, <2>3
    <3>2. UndoAt(hist, base, txs, n) \in Seq(Coin)
      BY Zenon, <2>3, <2>4
    <3>3. new = UndoAt(hist, base, txs, n + 1)
            <=> Grows(UndoAt(hist, base, txs, n), new, hist, base + n, Inputs[txs[n + 1]])
      BY Zenon, <3>2, GrownUndo
    <3>4. Grows(q.undo, r.undo, hist, base + n, Inputs[txs[n + 1]])
      BY Zenon, <2>5 DEF Grows
    <3> QED
      BY Zenon, <2>2, <2>4, <3>1, <3>3, <3>4
<1> QED
  BY Zenon, <1>2, <1>4, <1>9, <1>13, <1>14 DEF Verified

\* btc_chain_verify_inputs.
LEMMA VerifyLoop ==
  ASSUME DbType, NEW hist, NEW base, NEW txs, Continues(hist, base, txs, Len(chain) + 1),
         \A x \in Outpoint : db[x] = CoinOf(hist, base, x)
  PROVE  Verified(VerifyInputs(txs), hist, base, txs, Len(chain) + 1, Len(txs))
<1>1. Len(txs) \in Nat /\ Len(txs) <= Len(txs)
  BY DEF Continues
<1>2. PICK h : h = Len(chain) + 1
  BY Zenon
<1>3. PICK g : Verifies(g, txs)
  BY Zenon, <1>1, VerifyRuns
<1>4. /\ g[0] = Start(<< >>)
      /\ \A i \in 1 .. Len(txs) : g[i] = ConnectTx(g[i - 1], txs[i], h)
      /\ VerifyInputs(txs) = g[Len(txs)]
  BY Zenon, <1>2, <1>3 DEF Verifies
<1>5. Continues(hist, base, txs, h)
  BY Zenon, <1>2
<1> DEFINE N == {n \in Nat : n <= Len(txs) => Verified(g[n], hist, base, txs, h, n)}
<1>6. 0 \in N
  <2>1. Verified(Start(<< >>), hist, base, txs, h, 0)
    BY Zenon, <1>5, VerifiedNone
  <2> QED
    BY Zenon, <1>4, <2>1
<1>7. ASSUME NEW n \in Nat, n \in N PROVE n + 1 \in N
  <2>1. n + 1 \in Nat
    OBVIOUS
  <2> SUFFICES ASSUME n + 1 <= Len(txs) PROVE Verified(g[n + 1], hist, base, txs, h, n + 1)
    BY Zenon, <2>1
  <2>2. n <= Len(txs) /\ n + 1 \in 1 .. Len(txs) /\ (n + 1) - 1 = n
    BY <1>1
  <2>3. Verified(g[n], hist, base, txs, h, n)
    BY Zenon, <1>7, <2>2
  <2>4. g[n + 1] = ConnectTx(g[n], txs[n + 1], h)
    BY Zenon, <1>4, <2>2
  <2>5. Verified(ConnectTx(g[n], txs[n + 1], h), hist, base, txs, h, n + 1)
    BY Zenon, <1>5, <2>3, VerifiedOne
  <2> QED
    BY Zenon, <2>4, <2>5
<1>8. \A n \in Nat : n \in N
  <2> HIDE DEF N
  <2> QED
    BY Zenon, <1>6, <1>7, Naturals
<1> QED
  BY Zenon, <1>1, <1>2, <1>4, <1>8

-----------------------------------------------------------------------------
(* Reverting a block.                                                      *)

\* One turn of the inner loop of btc_chaindb_disconnect_block, from s to r.
Popped(r, s, o) ==
    /\ r \in State /\ r.ok = s.ok
    /\ Len(r.undo) = Len(s.undo) - 1
    /\ \A k \in 1 .. Len(s.undo) - 1 : r.undo[k] = s.undo[k]
    /\ \A x \in Outpoint :
            SaveView(r.view)[x] = IF x = o THEN s.undo[Len(s.undo)] ELSE SaveView(s.view)[x]

LEMMA PopOne ==
  ASSUME NEW s \in State, Len(s.undo) > 0, NEW o \in Outpoint
  PROVE  Popped(PopInput(s, o), s, o)
<1>1. PICK u \in Seq(Coin) : u = s.undo
  BY Zenon DEF State
<1>2. Len(u) > 0
  BY Zenon, <1>1
<1>3. /\ u # << >> /\ Last(u) = u[Len(u)] /\ u[Len(u)] \in Coin
      /\ Front(u) \in Seq(Coin) /\ Len(Front(u)) = Len(u) - 1
      /\ \A k \in 1 .. Len(u) - 1 : Front(u)[k] = u[k]
  <2>1. u # << >> /\ u[Len(u)] \in Coin
    BY <1>2
  <2> QED
    BY Zenon, <1>2, <2>1, FrontFacts DEF Last
<1>4. s.view \in View
  BY Zenon DEF State
<1>5. PICK c \in Coin : c = Last(u)
  BY Zenon, <1>3
<1>6. PICK w : w = Put(s.view, o, c, FALSE)
  BY Zenon
<1>7. /\ w \in View
      /\ \A x \in Outpoint : SaveView(w)[x] = IF x = o THEN c ELSE SaveView(s.view)[x]
  <2>1. PICK f \in BOOLEAN : f = FALSE
    BY Zenon
  <2>2. LET v == Put(s.view, o, c, f)
        IN  /\ v \in View
            /\ \A x \in Outpoint : SaveView(v)[x] =
                    IF x = o THEN (IF f THEN NoCoin ELSE c) ELSE SaveView(s.view)[x]
    BY <1>4, PutSaved
  <2> QED
    BY Zenon, <1>6, <2>1, <2>2
<1>8. PICK r : r = PopInput(s, o)
  BY Zenon
<1>9. r = [s EXCEPT !.view = w, !.undo = Front(u)]
  BY Zenon, <1>1, <1>3, <1>5, <1>6, <1>8 DEF PopInput
<1>10. r \in State /\ r.ok = s.ok /\ r.view = w /\ r.undo = Front(u)
  BY Zenon, <1>3, <1>7, <1>9 DEF State
<1> QED
  BY Zenon, <1>1, <1>3, <1>5, <1>7, <1>8, <1>10 DEF Popped

\* What the first n turns of the inner loop do, if the coins on the list are
\* those that the inputs had after p transactions of hist.
Restored(r, s, hist, p, ins, n) ==
    /\ r \in State /\ r.ok = s.ok
    /\ Len(r.undo) = Len(s.undo) - n
    /\ \A k \in 1 .. Len(s.undo) - n : r.undo[k] = s.undo[k]
    /\ \A x \in Outpoint : SaveView(r.view)[x] =
            IF \E j \in Len(ins) + 1 - n .. Len(ins) : ins[j] = x THEN CoinOf(hist, p, x)
            ELSE SaveView(s.view)[x]

LEMMA RestoredNone ==
  ASSUME NEW s \in State, NEW hist, NEW p, NEW ins \in Seq(Outpoint)
  PROVE  Restored(s, s, hist, p, ins, 0)
<1>1. PICK a \in Nat : a = Len(s.undo)
  BY Zenon, LenProperties DEF State
<1>2. a = a - 0 /\ \A j \in Len(ins) + 1 - 0 .. Len(ins) : FALSE
  OBVIOUS
<1> QED
  BY Zenon, <1>1, <1>2 DEF Restored

LEMMA RestoredOne ==
  ASSUME NEW s \in State, NEW hist, NEW p, NEW ins \in Seq(Outpoint), NEW w \in Seq(Coin),
         Grows(w, s.undo, hist, p, ins),
         NEW n \in Nat, n + 1 <= Len(ins), NEW q, Restored(q, s, hist, p, ins, n)
  PROVE  Restored(PopInput(q, ins[Len(ins) + 1 - (n + 1)]), s, hist, p, ins, n + 1)
<1>1. PICK l \in Nat : l = Len(ins)
  BY Zenon, LenProperties
<1>2. PICK a \in Nat : a = Len(w)
  BY Zenon, LenProperties
<1>3. PICK j0 \in 1 .. l : j0 = l + 1 - (n + 1)
  BY <1>1
<1>4. PICK o \in Outpoint : o = ins[j0]
  BY Zenon, <1>1, <1>3, ElementOfSeq
<1>5. /\ Len(s.undo) = a + l /\ \A j \in 1 .. l : s.undo[a + j] = CoinOf(hist, p, ins[j])
  BY Zenon, <1>1, <1>2 DEF Grows
<1>6. /\ q \in State /\ q.ok = s.ok
      /\ Len(q.undo) = (a + l) - n
      /\ \A k \in 1 .. (a + l) - n : q.undo[k] = s.undo[k]
      /\ \A x \in Outpoint : SaveView(q.view)[x] =
            IF \E j \in l + 1 - n .. l : ins[j] = x THEN CoinOf(hist, p, x)
            ELSE SaveView(s.view)[x]
  BY Zenon, <1>1, <1>5 DEF Restored
<1>7. PICK b : b = Len(q.undo)
  BY Zenon
<1>8. b = (a + l) - n
  BY Zenon, <1>6, <1>7
<1>9. /\ b > 0 /\ b = a + j0 /\ b \in 1 .. (a + l) - n /\ b - 1 = (a + l) - (n + 1)
      /\ \A k \in 1 .. (a + l) - (n + 1) : k \in 1 .. (a + l) - n
      /\ \A j : j \in l + 1 - (n + 1) .. l <=> j = j0 \/ j \in l + 1 - n .. l
  <2>1. n + 1 <= l
    BY Zenon, <1>1
  <2> QED
    BY <1>3, <1>8, <2>1
<1>10. q.undo[b] = CoinOf(hist, p, o)
  <2>1. q.undo[b] = s.undo[b]
    BY Zenon, <1>6, <1>9
  <2>2. s.undo[a + j0] = CoinOf(hist, p, ins[j0])
    BY Zenon, <1>3, <1>5
  <2> QED
    BY Zenon, <1>4, <1>9, <2>1, <2>2
<1>11. PICK r : r = PopInput(q, o)
  BY Zenon
<1>12. Popped(r, q, o)
  BY Zenon, <1>6, <1>7, <1>9, <1>11, PopOne
<1>13. /\ r \in State /\ r.ok = q.ok /\ Len(r.undo) = b - 1
       /\ \A k \in 1 .. b - 1 : r.undo[k] = q.undo[k]
       /\ \A x \in Outpoint :
            SaveView(r.view)[x] = IF x = o THEN q.undo[b] ELSE SaveView(q.view)[x]
  BY Zenon, <1>7, <1>12 DEF Popped
<1>14. ASSUME NEW x \in Outpoint
       PROVE  SaveView(r.view)[x] =
                IF \E j \in l + 1 - (n + 1) .. l : ins[j] = x THEN CoinOf(hist, p, x)
                ELSE SaveView(s.view)[x]
  <2>1. (\E j \in l + 1 - (n + 1) .. l : ins[j] = x) <=> x = o \/ \E j \in l + 1 - n .. l : ins[j] = x
    BY Zenon, <1>4, <1>9
  <2>2. SaveView(r.view)[x] = IF x = o THEN CoinOf(hist, p, x) ELSE SaveView(q.view)[x]
    BY Zenon, <1>10, <1>13
  <2>3. SaveView(q.view)[x] = IF \E j \in l + 1 - n .. l : ins[j] = x THEN CoinOf(hist, p, x)
                              ELSE SaveView(s.view)[x]
    BY Zenon, <1>6
  <2> QED
    BY Zenon, <2>1, <2>2, <2>3
<1>15. /\ Len(r.undo) = (a + l) - (n + 1)
       /\ \A k \in 1 .. (a + l) - (n + 1) : r.undo[k] = s.undo[k]
  BY Zenon, <1>6, <1>9, <1>13
<1>16. Restored(r, s, hist, p, ins, n + 1)
  BY Zenon, <1>1, <1>5, <1>6, <1>13, <1>14, <1>15 DEF Restored
<1> QED
  BY Zenon, <1>1, <1>3, <1>4, <1>11, <1>16

\* The inner loop takes off the list what the transaction added to it.
Undone(r, s, w, hist, p, ins) ==
    /\ r \in State /\ r.ok = s.ok /\ r.undo = w
    /\ \A x \in Outpoint : SaveView(r.view)[x] =
            IF \E j \in 1 .. Len(ins) : ins[j] = x THEN CoinOf(hist, p, x)
            ELSE SaveView(s.view)[x]

LEMMA PopLoop ==
  ASSUME NEW s \in State, NEW hist, NEW p, NEW ins \in Seq(Outpoint), NEW w \in Seq(Coin),
         Grows(w, s.undo, hist, p, ins)
  PROVE  Undone(PopInputs(s, ins), s, w, hist, p, ins)
<1>1. Len(ins) \in Nat /\ Len(ins) <= Len(ins) /\ Len(ins) + 1 - Len(ins) = 1
  OBVIOUS
<1>2. PICK g : Pops(g, s, ins)
  BY Zenon, <1>1, PopRuns
<1>3. /\ g[0] = s
      /\ \A i \in 1 .. Len(ins) : g[i] = PopInput(g[i - 1], ins[Len(ins) + 1 - i])
      /\ PopInputs(s, ins) = g[Len(ins)]
  BY Zenon, <1>2 DEF Pops
<1> DEFINE N == {n \in Nat : n <= Len(ins) => Restored(g[n], s, hist, p, ins, n)}
<1>4. 0 \in N
  <2>1. Restored(s, s, hist, p, ins, 0)
    BY Zenon, RestoredNone
  <2> QED
    BY Zenon, <1>3, <2>1
<1>5. ASSUME NEW n \in Nat, n \in N PROVE n + 1 \in N
  <2>1. n + 1 \in Nat
    OBVIOUS
  <2> SUFFICES ASSUME n + 1 <= Len(ins) PROVE Restored(g[n + 1], s, hist, p, ins, n + 1)
    BY Zenon, <2>1
  <2>2. n <= Len(ins) /\ n + 1 \in 1 .. Len(ins) /\ (n + 1) - 1 = n
    OBVIOUS
  <2>3. Restored(g[n], s, hist, p, ins, n)
    BY Zenon, <1>5, <2>2
  <2>4. g[n + 1] = PopInput(g[n], ins[Len(ins) + 1 - (n + 1)])
    BY Zenon, <1>3, <2>2
  <2>5. Restored(PopInput(g[n], ins[Len(ins) + 1 - (n + 1)]), s, hist, p, ins, n + 1)
    BY Zenon, <2>3, RestoredOne
  <2> QED
    BY Zenon, <2>4, <2>5
<1>6. \A n \in Nat : n \in N
  <2> HIDE DEF N
  <2> QED
    BY Zenon, <1>4, <1>5, Naturals
<1>7. PICK r : r = PopInputs(s, ins)
  BY Zenon
<1>8. Restored(r, s, hist, p, ins, Len(ins))
  BY Zenon, <1>1, <1>3, <1>6, <1>7
<1>9. /\ r \in State /\ r.ok = s.ok
      /\ Len(r.undo) = Len(s.undo) - Len(ins)
      /\ \A k \in 1 .. Len(s.undo) - Len(ins) : r.undo[k] = s.undo[k]
      /\ \A x \in Outpoint : SaveView(r.view)[x] =
            IF \E j \in 1 .. Len(ins) : ins[j] = x THEN CoinOf(hist, p, x)
            ELSE SaveView(s.view)[x]
  BY Zenon, <1>1, <1>8 DEF Restored
<1>10. r.undo = w
  <2>1. Len(s.undo) = Len(w) + Len(ins) /\ \A k \in 1 .. Len(w) : s.undo[k] = w[k]
    BY Zenon DEF Grows
  <2>2. (Len(w) + Len(ins)) - Len(ins) = Len(w)
    OBVIOUS
  <2>3. PICK u \in Seq(Coin) : u = r.undo
    BY Zenon, <1>9 DEF State
  <2>4. Len(u) = Len(w) /\ \A k \in 1 .. Len(w) : u[k] = w[k]
    BY Zenon, <1>9, <2>1, <2>2, <2>3
  <2>5. u = w
    BY <2>4, SeqEqual
  <2> QED
    BY Zenon, <2>3, <2>5
<1> QED
  BY Zenon, <1>7, <1>9, <1>10 DEF Undone

\* What makes a block revertible, relative to the history it ends.
Fresh(hist, base, txs) ==
    /\ \A i, j \in 1 .. Len(txs) : txs[i] = txs[j] => i = j
    /\ \A i \in 1 .. Len(txs) : \A o \in Outputs[txs[i]] : CoinOf(hist, base, o) = NoCoin

\* An output of a block has no coin before the transaction that creates it.
LEMMA StillFresh ==
  ASSUME NEW hist, NEW base, NEW txs, NEW h, Continues(hist, base, txs, h),
         Fresh(hist, base, txs), NEW n \in Nat, n + 1 <= Len(txs),
         NEW o \in Outputs[txs[n + 1]]
  PROVE  CoinOf(hist, base + n, o) = NoCoin
<1>1. /\ hist \in Seq(Record) /\ base \in Nat /\ txs \in Seq(Tx)
      /\ Len(hist) = base + Len(txs)
      /\ \A i \in 1 .. Len(txs) : hist[base + i] = [tx |-> txs[i], height |-> h]
  BY Zenon DEF Continues
<1>2. /\ n + 1 \in 1 .. Len(txs) /\ base + n \in Nat
      /\ \A p \in 1 .. base + n : p \in 1 .. Len(hist)
      /\ \A p \in 1 .. base : p \in 1 .. Len(hist)
  BY <1>1
<1>3. /\ \A p \in 1 .. base + n : hist[p] \in Record
      /\ \A p \in 1 .. base : hist[p] \in Record
  BY Zenon, <1>1, <1>2, ElementOfSeq
<1>4. CoinOf(hist, base, o) = NoCoin
  BY Zenon, <1>2 DEF Fresh
<1>5. \A p \in 1 .. base : ~UnspentAt(hist, base, o, p)
  BY Zenon, <1>1, <1>3, <1>4, CoinType
<1>6. ASSUME NEW p \in 1 .. base + n, UnspentAt(hist, base + n, o, p) PROVE FALSE
  <2>1. CASE p \in 1 .. base
    <3>1. \A q \in p + 1 .. base : q \in p + 1 .. base + n
      BY <1>1
    <3>2. UnspentAt(hist, base, o, p)
      BY Zenon, <1>6, <2>1, <3>1 DEF UnspentAt
    <3> QED
      BY Zenon, <1>5, <2>1, <3>2
  <2>2. CASE p \notin 1 .. base
    <3>1. PICK i \in 1 .. n : p = base + i
      <4>1. p - base \in 1 .. n /\ p = base + (p - base)
        BY <1>1, <2>2
      <4> QED
        BY Zenon, <4>1
    <3>2. i \in 1 .. Len(txs) /\ i # n + 1
      BY <1>1
    <3>3. hist[p].tx = txs[i]
      <4>1. hist[base + i] = [tx |-> txs[i], height |-> h]
        BY Zenon, <1>1, <3>2
      <4> QED
        BY <3>1, <4>1
    <3>4. o \in Outputs[txs[i]]
      BY Zenon, <1>6, <3>3 DEF UnspentAt
    <3>5. txs[i] # txs[n + 1]
      BY Zenon, <1>2, <3>2 DEF Fresh
    <3>6. txs[i] \in Tx /\ txs[n + 1] \in Tx
      BY Zenon, <1>1, <1>2, <3>2, ElementOfSeq
    <3>7. Outputs[txs[i]] \cap Outputs[txs[n + 1]] = {}
      BY Zenon, <3>5, <3>6, TxAssumption
    <3> QED
      BY Zenon, <3>4, <3>7
  <2> QED
    BY <2>1, <2>2
<1> QED
  BY Zenon, <1>2, <1>3, <1>6, CoinType

\* The state of the outer loop once all but n transactions are reverted.
Reverted(r, hist, base, txs, n) ==
    /\ r \in State /\ r.ok = TRUE /\ r.undo = UndoAt(hist, base, txs, n)
    /\ \A x \in Outpoint : SaveView(r.view)[x] = CoinOf(hist, base + n, x)

LEMMA RevertOne ==
  ASSUME NEW hist, NEW base, NEW txs, NEW h, Continues(hist, base, txs, h),
         Fresh(hist, base, txs), NEW n \in Nat, n + 1 <= Len(txs),
         UndoAt(hist, base, txs, n) \in Seq(Coin),
         NEW q, Reverted(q, hist, base, txs, n + 1)
  PROVE  Reverted(RevertTx(q, txs[n + 1], h), hist, base, txs, n)
<1>1. /\ n + 1 \in 1 .. Len(txs) /\ txs[n + 1] \in Tx /\ base + n \in Nat
      /\ base + (n + 1) = (base + n) + 1 /\ (base + (n + 1)) - 1 = base + n
      /\ (base + n) + 1 - 1 = base + n
      /\ hist[base + (n + 1)] = [tx |-> txs[n + 1], height |-> h]
      /\ \A x : CoinOf(hist, base + n, x) \in MaybeCoin
  BY PlaceFacts
<1>2. PICK t \in Tx : t = txs[n + 1]
  BY Zenon, <1>1
<1>3. hist[(base + n) + 1].tx = t /\ hist[(base + n) + 1].height = h
  BY <1>1, <1>2
<1>4. q \in State /\ q.undo \in Seq(Coin) /\ q.ok = TRUE /\ h \in Nat
  BY Zenon DEF Reverted, Continues, State
<1>5. PICK w \in Seq(Coin) : w = UndoAt(hist, base, txs, n)
  BY Zenon
<1>6. PICK ins \in Seq(Outpoint) :
            /\ ins = Inputs[t]
            /\ \A x : Consumes(t, x) <=> \E j \in 1 .. Len(ins) : ins[j] = x
  BY Zenon, InputsFacts
<1>7. Grows(w, q.undo, hist, base + n, ins)
  <2>1. PICK new \in Seq(Coin) : new = q.undo
    BY Zenon, <1>4
  <2>2. new = UndoAt(hist, base, txs, n + 1)
            <=> Grows(UndoAt(hist, base, txs, n), new, hist, base + n, Inputs[txs[n + 1]])
    BY Zenon, GrownUndo
  <2>3. new = UndoAt(hist, base, txs, n + 1)
    BY Zenon, <2>1 DEF Reverted
  <2> QED
    BY Zenon, <1>2, <1>5, <1>6, <2>1, <2>2, <2>3
<1>8. PICK r : r = PopInputs(q, ins)
  BY Zenon
<1>9. /\ r \in State /\ r.ok = q.ok /\ r.undo = w
      /\ \A x \in Outpoint : SaveView(r.view)[x] =
            IF \E j \in 1 .. Len(ins) : ins[j] = x THEN CoinOf(hist, base + n, x)
            ELSE SaveView(q.view)[x]
  <2>1. Undone(PopInputs(q, ins), q, w, hist, base + n, ins)
    BY Zenon, <1>4, <1>7, PopLoop
  <2> QED
    BY Zenon, <1>8, <2>1 DEF Undone
<1>10. r.view \in View
  BY Zenon, <1>9 DEF State
<1>11. PICK v : v = AddOutputs(r.view, t, h, TRUE)
  BY Zenon
<1>12. /\ v \in View
       /\ \A x \in Outpoint : SaveView(v)[x] =
                IF x \in Outputs[t] THEN NoCoin ELSE SaveView(r.view)[x]
  <2>1. PICK f \in BOOLEAN : f = TRUE
    BY Zenon
  <2>2. Added(AddOutputs(r.view, t, h, f), r.view, t, h, f)
    BY Zenon, <1>4, <1>10, AddSaved
  <2> QED
    BY Zenon, <1>11, <2>1, <2>2 DEF Added
<1>13. PICK s : s = RevertTx(q, t, h)
  BY Zenon
<1>14. s = [r EXCEPT !.view = v]
  BY Zenon, <1>6, <1>8, <1>11, <1>13 DEF RevertTx
<1>15. s \in State /\ s.ok = TRUE /\ s.undo = w /\ s.view = v
  BY Zenon, <1>4, <1>9, <1>12, <1>14 DEF State
<1>16. ASSUME NEW x \in Outpoint PROVE SaveView(s.view)[x] = CoinOf(hist, base + n, x)
  <2>1. CASE x \in Outputs[t]
    <3>1. CoinOf(hist, base + n, x) = NoCoin
      BY Zenon, <1>2, <2>1, StillFresh
    <3> QED
      BY Zenon, <1>12, <1>15, <2>1, <3>1
  <2>2. CASE x \notin Outputs[t]
    <3>1. CoinOf(hist, (base + n) + 1, x) =
            IF x \in Outputs[hist[(base + n) + 1].tx]
            THEN [height |-> hist[(base + n) + 1].height,
                  coinbase |-> hist[(base + n) + 1].tx \in Coinbase]
            ELSE IF Consumes(hist[(base + n) + 1].tx, x) THEN NoCoin ELSE CoinOf(hist, base + n, x)
      BY Zenon, <1>1, CoinStep
    <3>2. ~Consumes(t, x) => SaveView(q.view)[x] = CoinOf(hist, base + n, x)
      <4>1. SaveView(q.view)[x] = CoinOf(hist, base + (n + 1), x)
        BY Zenon DEF Reverted
      <4> QED
        BY Zenon, <1>1, <1>3, <2>2, <3>1, <4>1
    <3>3. SaveView(r.view)[x] = IF Consumes(t, x) THEN CoinOf(hist, base + n, x)
                                ELSE SaveView(q.view)[x]
      BY Zenon, <1>6, <1>9
    <3> QED
      BY Zenon, <1>12, <1>15, <2>2, <3>2, <3>3
  <2> QED
    BY <2>1, <2>2
<1> QED
  BY Zenon, <1>2, <1>5, <1>13, <1>15, <1>16 DEF Reverted

\* btc_chaindb_disconnect_block.
LEMMA RevertLoop ==
  ASSUME DbType, NEW hist, NEW base, NEW txs, NEW h, Continues(hist, base, txs, h),
         Fresh(hist, base, txs), ConsumedBy(hist, base, txs) \in Seq(Seq(Coin)),
         \A x \in Outpoint : db[x] = CoinOf(hist, base + Len(txs), x)
  PROVE  Reverted(RevertBlock(txs, UndoAt(hist, base, txs, Len(txs)), h), hist, base, txs, 0)
<1>1. PICK l \in Nat : l = Len(txs)
  BY Zenon, LenProperties DEF Continues
<1>2. ASSUME NEW n \in Nat, n <= l PROVE UndoAt(hist, base, txs, n) \in Seq(Coin)
  <2>1. PICK cs \in Seq(Seq(Coin)) : cs = ConsumedBy(hist, base, txs)
    BY Zenon
  <2>2. Len(cs) = l
    <3>1. Len(ConsumedBy(hist, base, txs)) = Len(txs)
      BY Zenon, ConsumedLen
    <3> QED
      BY Zenon, <1>1, <2>1, <3>1
  <2>3. SubSeq(cs, 1, n) \in Seq(Seq(Coin))
    BY <1>2, <2>2
  <2> QED
    BY Zenon, <2>1, <2>3, FlattenType DEF UndoAt
<1>3. PICK u : u = UndoAt(hist, base, txs, Len(txs))
  BY Zenon
<1>4. PICK g : Reverts(g, txs, u, h)
  BY Zenon, <1>1, RevertRuns
<1>5. /\ g[0] = Start(u)
      /\ \A i \in 1 .. l : g[i] = RevertTx(g[i - 1], txs[l + 1 - i], h)
      /\ RevertBlock(txs, u, h) = g[l]
  BY Zenon, <1>1, <1>4 DEF Reverts
<1> DEFINE N == {i \in Nat : i <= l => Reverted(g[i], hist, base, txs, l - i)}
<1>6. 0 \in N
  <2>1. l - 0 = l /\ l <= l
    OBVIOUS
  <2>2. u = UndoAt(hist, base, txs, l) /\ u \in Seq(Coin)
    BY Zenon, <1>1, <1>2, <1>3, <2>1
  <2>3. EmptyView \in View /\ \A x \in Outpoint : SaveView(EmptyView)[x] = db[x]
    BY Zenon, EmptySaved
  <2>4. PICK r : r = Start(u)
    BY Zenon
  <2>5. r \in State /\ r.ok = TRUE /\ r.undo = u /\ r.view = EmptyView
    BY Zenon, <2>2, <2>3, <2>4 DEF State, Start
  <2>6. Reverted(r, hist, base, txs, l - 0)
    BY Zenon, <1>1, <2>1, <2>2, <2>3, <2>5 DEF Reverted
  <2> QED
    BY Zenon, <1>5, <2>4, <2>6
<1>7. ASSUME NEW i \in Nat, i \in N PROVE i + 1 \in N
  <2>1. i + 1 \in Nat
    OBVIOUS
  <2> SUFFICES ASSUME i + 1 <= l PROVE Reverted(g[i + 1], hist, base, txs, l - (i + 1))
    BY Zenon, <2>1
  <2>2. PICK n \in Nat : n = l - (i + 1)
    OBVIOUS
  <2>3. /\ i <= l /\ i + 1 \in 1 .. l /\ (i + 1) - 1 = i /\ n + 1 = l - i /\ n <= l
        /\ n + 1 <= l /\ l + 1 - (i + 1) = n + 1
    BY <2>2
  <2>4. Reverted(g[i], hist, base, txs, n + 1)
    BY Zenon, <1>7, <2>3
  <2>5. g[i + 1] = RevertTx(g[i], txs[n + 1], h)
    BY Zenon, <1>5, <2>3
  <2>6. n + 1 <= Len(txs) /\ UndoAt(hist, base, txs, n) \in Seq(Coin)
    BY Zenon, <1>1, <1>2, <2>3
  <2>7. Reverted(RevertTx(g[i], txs[n + 1], h), hist, base, txs, n)
    BY Zenon, <2>4, <2>6, RevertOne
  <2> QED
    BY Zenon, <2>2, <2>5, <2>7
<1>8. \A i \in Nat : i \in N
  <2> HIDE DEF N
  <2> QED
    BY Zenon, <1>6, <1>7, Naturals
<1>9. l - l = 0 /\ l <= l
  OBVIOUS
<1>10. Reverted(g[l], hist, base, txs, 0)
  BY Zenon, <1>8, <1>9
<1> QED
  BY Zenon, <1>3, <1>5, <1>10

-----------------------------------------------------------------------------
(* The invariant.                                                          *)

\* An input of a block whose undo record is complete was unspent at its place.
LEMMA InputCoin ==
  ASSUME NEW hist, NEW base, NEW txs, NEW h, Continues(hist, base, txs, h),
         ConsumedBy(hist, base, txs) \in Seq(Seq(Coin)),
         NEW n \in Nat, n + 1 <= Len(txs), NEW j \in 1 .. Len(Inputs[txs[n + 1]])
  PROVE  \E p \in 1 .. base + n : UnspentAt(hist, base + n, Inputs[txs[n + 1]][j], p)
<1>1. PICK cs \in Seq(Seq(Coin)) : cs = ConsumedBy(hist, base, txs)
  BY Zenon
<1>2. Tallies(cs, hist, base, txs)
  BY Zenon, <1>1, ConsumedType
<1>3. n + 1 \in 1 .. Len(txs) /\ base + n \in Nat
  BY Zenon, PlaceFacts
<1>4. /\ Len(cs) = Len(txs) /\ Len(cs[n + 1]) = Len(Inputs[txs[n + 1]])
      /\ cs[n + 1][j] = CoinOf(hist, base + ((n + 1) - 1), Inputs[txs[n + 1]][j])
  BY Zenon, <1>2, <1>3 DEF Tallies
<1>5. base + ((n + 1) - 1) = base + n
  OBVIOUS
<1>6. cs[n + 1] \in Seq(Coin)
  BY Zenon, <1>3, <1>4, ElementOfSeq
<1>7. cs[n + 1][j] \in Coin
  BY Zenon, <1>4, <1>6, ElementOfSeq
<1>8. CoinOf(hist, base + n, Inputs[txs[n + 1]][j]) # NoCoin
  BY Zenon, <1>4, <1>5, <1>7, NoCoinApart
<1>9. \A p \in 1 .. base + n : hist[p] \in Record
  <2>1. hist \in Seq(Record) /\ Len(hist) = base + Len(txs) /\ base \in Nat /\ Len(txs) \in Nat
    BY Zenon, LenProperties DEF Continues
  <2>2. \A p \in 1 .. base + n : p \in 1 .. Len(hist)
    BY <2>1
  <2> QED
    BY Zenon, <2>1, <2>2, ElementOfSeq
<1> QED
  BY Zenon, <1>3, <1>8, <1>9, CoinType

\* A block that was checked has no transaction twice, although nothing looks
\* for that: a second copy would have to consume what the first one consumed,
\* and only another second copy could have created it again.
LEMMA NoTwice ==
  ASSUME NEW hist, NEW base, NEW txs, NEW h, Continues(hist, base, txs, h),
         \A i \in 1 .. Len(txs) : txs[i] \in Coinbase <=> i = 1,
         \A i \in 1 .. Len(txs) : \A o \in Outputs[txs[i]] : CoinOf(hist, base, o) = NoCoin,
         ConsumedBy(hist, base, txs) \in Seq(Seq(Coin))
  PROVE  Fresh(hist, base, txs)
<1> DEFINE again(m) == \E i \in 1 .. Len(txs) : i < m /\ txs[i] = txs[m]
<1>1. /\ hist \in Seq(Record) /\ base \in Nat /\ txs \in Seq(Tx) /\ Len(txs) \in Nat
      /\ Len(hist) = base + Len(txs)
      /\ \A i \in 1 .. Len(txs) : hist[base + i] = [tx |-> txs[i], height |-> h]
  BY Zenon, LenProperties DEF Continues
<1>2. \A i \in 1 .. Len(txs) : txs[i] \in Tx /\ hist[base + i].tx = txs[i]
  <2> SUFFICES ASSUME NEW i \in 1 .. Len(txs) PROVE txs[i] \in Tx /\ hist[base + i].tx = txs[i]
    BY Zenon
  <2>1. hist[base + i] = [tx |-> txs[i], height |-> h]
    BY Zenon, <1>1
  <2> QED
    BY <1>1, <2>1
<1>3. ASSUME NEW m \in 1 .. Len(txs), again(m),
             \A k \in 1 .. Len(txs) : k < m => ~again(k)
      PROVE  FALSE
  <2>1. PICK i \in 1 .. Len(txs) : i < m /\ txs[i] = txs[m]
    BY Zenon, <1>3
  <2>2. PICK t \in Tx : t = txs[m]
    BY Zenon, <1>2
  <2>3. m # 1
    BY <2>1
  <2>4. Inputs[t] # << >> /\ Inputs[t] \in Seq(Outpoint)
    BY Zenon, <2>2, <2>3, TxAssumption
  <2>5. 1 \in 1 .. Len(Inputs[t])
    BY <2>4
  <2>6. PICK o : o = Inputs[t][1]
    BY Zenon
  <2>7. Consumes(t, o)
    BY <2>4, <2>5, <2>6 DEF Consumes, Range
  <2>8. PICK a \in Nat : a + 1 = i
    BY <1>1
  <2>9. PICK b \in Nat : b + 1 = m
    BY <1>1
  <2>10. a + 1 <= Len(txs) /\ b + 1 <= Len(txs) /\ a < b /\ b <= Len(txs)
    BY <1>1, <2>1, <2>8, <2>9
  \* The copy at m consumes what was created after the one at i consumed it.
  <2>11. PICK p \in 1 .. base + b : UnspentAt(hist, base + b, o, p)
    BY Zenon, <2>2, <2>5, <2>6, <2>9, <2>10, InputCoin
  <2>12. PICK k \in 1 .. Len(txs) : p = base + k /\ i <= k /\ k < m
    <3>1. hist[base + i].tx = t
      BY Zenon, <1>2, <2>1, <2>2
    <3>2. base + i \notin p + 1 .. base + b
      BY Zenon, <2>7, <2>11, <3>1 DEF UnspentAt
    <3>3. p - base \in 1 .. Len(txs) /\ p = base + (p - base) /\ i <= p - base /\ p - base < m
      BY <1>1, <2>1, <2>8, <2>9, <2>10, <3>2
    <3> QED
      BY Zenon, <3>3
  <2>13. o \in Outputs[txs[k]]
    BY Zenon, <1>2, <2>11, <2>12 DEF UnspentAt
  \* The copy at i consumes what was created before it.
  <2>14. PICK q \in 1 .. base + a : UnspentAt(hist, base + a, o, q)
    BY Zenon, <2>1, <2>2, <2>5, <2>6, <2>8, <2>10, InputCoin
  <2>15. CASE q \in 1 .. base
    <3>1. \A x \in q + 1 .. base : x \in q + 1 .. base + a
      BY <1>1
    <3>2. UnspentAt(hist, base, o, q)
      BY Zenon, <2>14, <2>15, <3>1 DEF UnspentAt
    <3>3. \A x \in 1 .. base : hist[x] \in Record
      <4>1. \A x \in 1 .. base : x \in 1 .. Len(hist)
        BY <1>1
      <4> QED
        BY Zenon, <1>1, <4>1, ElementOfSeq
    <3>4. CoinOf(hist, base, o) # NoCoin
      BY Zenon, <1>1, <2>15, <3>2, <3>3, CoinType
    <3> QED
      BY Zenon, <2>13, <3>4
  <2>16. CASE q \notin 1 .. base
    <3>1. PICK l \in 1 .. Len(txs) : q = base + l /\ l < i
      <4>1. q - base \in 1 .. Len(txs) /\ q = base + (q - base) /\ q - base < i
        BY <1>1, <2>8, <2>10, <2>16
      <4> QED
        BY Zenon, <4>1
    <3>2. o \in Outputs[txs[l]]
      BY Zenon, <1>2, <2>14, <3>1 DEF UnspentAt
    <3>3. txs[l] \in Tx /\ txs[k] \in Tx
      BY Zenon, <1>2
    <3>4. txs[l] = txs[k]
      BY Zenon, <2>13, <3>2, <3>3, TxAssumption
    <3>5. l < k
      BY <2>12, <3>1
    <3> QED
      BY Zenon, <1>3, <2>12, <3>4, <3>5
  <2> QED
    BY Zenon, <2>15, <2>16
<1>4. \A m \in 1 .. Len(txs) : ~again(m)
  <2> DEFINE S == {n \in Nat : \A k \in 1 .. Len(txs) : k <= n => ~again(k)}
  <2> HIDE DEF again
  <2>1. 0 \in S
    OBVIOUS
  <2>2. ASSUME NEW n \in Nat, n \in S PROVE n + 1 \in S
    <3>1. ASSUME NEW k \in 1 .. Len(txs), k <= n + 1, again(k) PROVE FALSE
      <4>1. \A x \in 1 .. Len(txs) : x < k => x <= n
        BY <3>1
      <4>2. \A x \in 1 .. Len(txs) : x < k => ~again(x)
        BY Zenon, <2>2, <4>1
      <4> QED
        BY Zenon, <1>3, <3>1, <4>2
    <3>2. n + 1 \in Nat
      OBVIOUS
    <3> QED
      BY Zenon, <3>1, <3>2
  <2> HIDE DEF S
  <2>3. \A n \in Nat : n \in S
    BY Zenon, <2>1, <2>2, Naturals
  <2>4. Len(txs) \in S
    BY Zenon, <1>1, <2>3
  <2>5. \A m \in 1 .. Len(txs) : m <= Len(txs)
    BY <1>1
  <2> QED
    BY Zenon, <2>4, <2>5 DEF S
<1>5. ASSUME NEW i \in 1 .. Len(txs), NEW j \in 1 .. Len(txs), txs[i] = txs[j]
      PROVE  i = j
  <2>1. ~(i < j) /\ ~(j < i)
    BY Zenon, <1>4, <1>5
  <2> QED
    BY <2>1
<1> QED
  BY Zenon, <1>5 DEF Fresh

LEMMA BlockContinues ==
  ASSUME NEW c \in Seq(Block), NEW b, b.txs \in Candidates
  PROVE  LET hist == History(Append(c, b))
             base == Len(History(c))
         IN  /\ Continues(hist, base, b.txs, Len(c) + 1)
             /\ \A x : CoinOf(hist, base, x) = CoinOf(History(c), base, x)
             /\ DOMAIN b.txs = 1 .. Len(b.txs)
<1>1. b.txs \in Seq(Tx)
  BY Zenon, TxAssumption
<1>2. DOMAIN b.txs = 1 .. Len(b.txs)
  BY Zenon, <1>1, LenProperties
<1>3. PICK hist : hist = History(Append(c, b))
  BY Zenon
<1>4. PICK old : old = History(c)
  BY Zenon
<1>5. /\ hist \in Seq(Record) /\ Len(hist) = Len(old) + Len(b.txs)
      /\ \A p \in 1 .. Len(old) : hist[p] = old[p]
      /\ \A i \in 1 .. Len(b.txs) :
             hist[Len(old) + i] = [tx |-> b.txs[i], height |-> Len(c) + 1]
  <2>1. Prolongs(hist, old, b.txs, Len(c) + 1)
    BY Zenon, <1>1, <1>3, <1>4, HistoryAppend
  <2> QED
    BY Zenon, <2>1 DEF Prolongs
<1>6. old \in Seq(Record)
  BY Zenon, <1>4, HistoryType
<1>7. Len(old) \in Nat /\ Len(c) + 1 \in Nat
  BY <1>6
<1>8. Continues(hist, Len(old), b.txs, Len(c) + 1)
  BY Zenon, <1>1, <1>5, <1>7 DEF Continues
<1>9. \A x : CoinOf(hist, Len(old), x) = CoinOf(old, Len(old), x)
  BY Zenon, <1>5, <1>7, CoinPrefix
<1> QED
  BY Zenon, <1>1, <1>2, <1>3, <1>4, <1>8, <1>9

LEMMA InvFacts ==
  ASSUME CoinsInv
  PROVE  /\ DbType /\ chain \in Seq(Block)
         /\ \A x \in Outpoint : db[x] = CoinOf(History(chain), Len(History(chain)), x)
<1>1. PICK c \in Seq(Block) : c = chain
  BY Zenon DEF CoinsInv, Block
<1>2. PICK hist \in Seq(Record) : hist = History(c)
  BY Zenon, HistoryType
<1>3. Len(hist) \in Nat /\ \A p \in 1 .. Len(hist) : hist[p] \in Record
  BY Zenon, LenProperties, ElementOfSeq
<1>4. db = [x \in Outpoint |-> CoinOf(hist, Len(hist), x)]
  BY Zenon, <1>1, <1>2 DEF CoinsInv, Coins
<1>5. \A x \in Outpoint : CoinOf(hist, Len(hist), x) \in MaybeCoin
  BY Zenon, <1>3, CoinType
<1> QED
  BY Zenon, <1>1, <1>2, <1>4, <1>5 DEF DbType

\* Checking a block on top of the chain.
LEMMA BlockVerified ==
  ASSUME CoinsInv, NEW b, b.txs \in Candidates
  PROVE  Verified(VerifyInputs(b.txs), History(Append(chain, b)), Len(History(chain)),
                  b.txs, Len(chain) + 1, Len(b.txs))
<1>1. PICK c \in Seq(Block) : c = chain
  BY Zenon, InvFacts
<1>2. PICK hist : hist = History(Append(c, b))
  BY Zenon
<1>3. PICK base : base = Len(History(c))
  BY Zenon
<1>4. /\ Continues(hist, base, b.txs, Len(c) + 1)
      /\ \A x : CoinOf(hist, base, x) = CoinOf(History(c), base, x)
  BY <1>2, <1>3, BlockContinues
<1>5. DbType /\ \A x \in Outpoint : db[x] = CoinOf(hist, base, x)
  BY Zenon, <1>1, <1>3, <1>4, InvFacts
<1>6. Verified(VerifyInputs(b.txs), hist, base, b.txs, Len(chain) + 1, Len(b.txs))
  BY Zenon, <1>1, <1>4, <1>5, VerifyLoop
<1> QED
  BY Zenon, <1>1, <1>2, <1>3, <1>6

\* Reverting the tip leads back to the coins before it, and empties the list.
LEMMA TipReverts ==
  ASSUME CoinsInv, chain # << >>
  PROVE  LET r == RevertBlock(Last(chain).txs, Last(chain).undo, Len(chain))
             c == Front(chain)
         IN  /\ r.ok /\ r.undo = << >>
             /\ \A x \in Outpoint : SaveView(r.view)[x] = CoinOf(History(c), Len(History(c)), x)
<1>1. PICK d \in Seq(Block) : d = chain
  BY Zenon, InvFacts
<1>2. PICK l \in Nat : l = Len(d) /\ l > 0 /\ l \in 1 .. l
  <2>1. d # << >>
    BY Zenon, <1>1
  <2> QED
    BY <2>1
<1>3. PICK c : c = SubSeq(d, 1, l - 1)
  BY Zenon
<1>4. c \in Seq(Block) /\ Len(c) + 1 = l /\ c = Front(d) /\ d = Append(c, d[l]) /\ d[l] \in Block
  BY <1>2, <1>3 DEF Front
<1>5. PICK b \in Block : b = d[l]
  BY Zenon, <1>4
<1>6. b.txs \in Candidates /\ b = Last(chain)
  BY Zenon, <1>1, <1>2, <1>5 DEF Block, Last
<1>7. Revertible(c, b)
  BY Zenon, <1>1, <1>2, <1>3, <1>5 DEF CoinsInv
<1>8. PICK hist : hist = History(Append(c, b))
  BY Zenon
<1>9. PICK base : base = Len(History(c))
  BY Zenon
<1>10. /\ Continues(hist, base, b.txs, Len(c) + 1)
       /\ \A x : CoinOf(hist, base, x) = CoinOf(History(c), base, x)
       /\ DOMAIN b.txs = 1 .. Len(b.txs)
  BY <1>4, <1>6, <1>8, <1>9, BlockContinues
<1>11. hist = History(chain) /\ Len(hist) = base + Len(b.txs) /\ base + 0 = base
  <2>1. hist = History(chain)
    BY Zenon, <1>1, <1>4, <1>5, <1>8
  <2>2. Len(hist) = base + Len(b.txs) /\ base \in Nat
    BY Zenon, <1>10 DEF Continues
  <2>3. base + 0 = base
    BY <2>2
  <2> QED
    BY Zenon, <2>1, <2>2, <2>3
<1>12. DbType /\ \A x \in Outpoint : db[x] = CoinOf(hist, base + Len(b.txs), x)
  BY Zenon, <1>11, InvFacts
<1>13. PICK cs : cs = ConsumedBy(hist, base, b.txs)
  BY Zenon
<1>14. cs = Consumed(c, b)
  BY Zenon, <1>8, <1>9, <1>13 DEF Consumed, ConsumedBy
<1>15. cs \in Seq(Seq(Coin)) /\ b.undo = FlattenSeq(cs)
  BY Zenon, <1>7, <1>14 DEF Revertible
<1>16. Fresh(hist, base, b.txs)
  <2>1. \A i \in 1 .. Len(b.txs) : b.txs[i] \in Coinbase <=> i = 1
    BY Zenon, <1>6, <1>10, TxAssumption
  <2>2. \A i \in 1 .. Len(b.txs) : \A o \in Outputs[b.txs[i]] : CoinOf(hist, base, o) = NoCoin
    BY Zenon, <1>7, <1>9, <1>10 DEF Revertible
  <2>3. ConsumedBy(hist, base, b.txs) \in Seq(Seq(Coin))
    BY Zenon, <1>13, <1>15
  <2> QED
    BY Zenon, <1>10, <2>1, <2>2, <2>3, NoTwice
<1>17. Len(cs) = Len(b.txs)
  BY Zenon, <1>10, <1>13, ConsumedLen
<1>18. b.undo = UndoAt(hist, base, b.txs, Len(b.txs))
  <2>1. SubSeq(cs, 1, Len(cs)) = cs
    BY <1>15
  <2> QED
    BY Zenon, <1>13, <1>15, <1>17, <2>1 DEF UndoAt
<1>19. PICK r : r = RevertBlock(b.txs, b.undo, l)
  BY Zenon
<1>20. Reverted(r, hist, base, b.txs, 0)
  <2>1. ConsumedBy(hist, base, b.txs) \in Seq(Seq(Coin))
    BY Zenon, <1>13, <1>15
  <2>2. Continues(hist, base, b.txs, l)
    BY Zenon, <1>4, <1>10
  <2>3. Reverted(RevertBlock(b.txs, UndoAt(hist, base, b.txs, Len(b.txs)), l),
                 hist, base, b.txs, 0)
    BY Zenon, <1>12, <1>16, <2>1, <2>2, RevertLoop
  <2> QED
    BY Zenon, <1>18, <1>19, <2>3
<1>21. UndoAt(hist, base, b.txs, 0) = << >>
  <2>1. SubSeq(ConsumedBy(hist, base, b.txs), 1, 0) = << >>
    OBVIOUS
  <2> QED
    BY Zenon, <2>1, FlattenEmpty DEF UndoAt
<1>22. /\ r.ok = TRUE /\ r.undo = << >>
       /\ \A x \in Outpoint : SaveView(r.view)[x] = CoinOf(History(c), Len(History(c)), x)
  BY Zenon, <1>9, <1>10, <1>11, <1>20, <1>21 DEF Reverted
<1> QED
  BY Zenon, <1>1, <1>2, <1>4, <1>6, <1>19, <1>22

LEMMA InitCoins ==
  ASSUME Init
  PROVE  CoinsInv
<1>1. History(<< >>) = << >>
  <2>1. [h \in DOMAIN << >> |-> [i \in DOMAIN << >>[h].txs |->
                                    [tx |-> << >>[h].txs[i], height |-> h]]] = << >>
    OBVIOUS
  <2> QED
    BY Zenon, <2>1, FlattenEmpty DEF History
<1>2. Len(<< >>) = 0 /\ 1 .. 0 = {}
  OBVIOUS
<1>3. \A o : CoinOf(<< >>, 0, o) = NoCoin
  BY Zenon, <1>2 DEF CoinOf
<1>4. db = Coins(History(chain), Len(History(chain)))
  BY Zenon, <1>1, <1>2, <1>3 DEF Init, Coins
<1>5. chain \in Seq([txs : Candidates, undo : Seq(Coin)])
  BY DEF Init
<1>6. \A h \in 1 .. Len(chain) : Revertible(SubSeq(chain, 1, h - 1), chain[h])
  BY Zenon, <1>2 DEF Init
<1> QED
  BY Zenon, <1>4, <1>5, <1>6 DEF CoinsInv

\* The coins that a checked block consumes are coins.
LEMMA CheckedConsumes ==
  ASSUME NEW hist, NEW base, NEW txs, NEW h, Continues(hist, base, txs, h),
         \A i \in 1 .. Len(txs) : SpendsAt(hist, base + i, h)
  PROVE  ConsumedBy(hist, base, txs) \in Seq(Seq(Coin))
<1>1. PICK cs : cs = ConsumedBy(hist, base, txs)
  BY Zenon
<1>2. /\ cs \in Seq(Seq(MaybeCoin)) /\ Len(cs) = Len(txs)
      /\ \A k \in 1 .. Len(txs) :
             /\ cs[k] \in Seq(MaybeCoin) /\ Len(cs[k]) = Len(Inputs[txs[k]])
             /\ \A j \in 1 .. Len(Inputs[txs[k]]) :
                    cs[k][j] = CoinOf(hist, base + k - 1, Inputs[txs[k]][j])
  <2>1. Tallies(cs, hist, base, txs)
    BY Zenon, <1>1, ConsumedType
  <2> QED
    BY Zenon, <2>1 DEF Tallies
<1>3. ASSUME NEW k \in 1 .. Len(txs)
      PROVE  cs[k] \in Seq(Coin)
  <2>1. txs[k] \in Tx /\ hist[base + k].tx = txs[k]
    <3>1. txs \in Seq(Tx) /\ hist[base + k] = [tx |-> txs[k], height |-> h]
      BY Zenon DEF Continues
    <3> QED
      BY <3>1
  <2>2. Inputs[txs[k]] \in Seq(Outpoint)
    BY Zenon, <2>1, TxAssumption
  <2>3. ASSUME NEW j \in 1 .. Len(Inputs[txs[k]])
        PROVE  cs[k][j] \in Coin
    <3>1. Inputs[txs[k]][j] \in Range(Inputs[txs[k]])
      BY <2>2 DEF Range
    <3>2. CoinOf(hist, base + k - 1, Inputs[txs[k]][j]) # NoCoin
      <4>1. SpendsAt(hist, base + k, h)
        BY Zenon
      <4>2. \A o \in Range(Inputs[hist[base + k].tx]) : CoinOf(hist, (base + k) - 1, o) # NoCoin
        BY Zenon, <4>1 DEF SpendsAt
      <4>3. base \in Nat
        BY Zenon DEF Continues
      <4>4. (base + k) - 1 = base + k - 1
        BY <4>3
      <4> QED
        BY Zenon, <2>1, <3>1, <4>2, <4>4
    <3>3. cs[k][j] \in MaybeCoin
      BY <1>2
    <3> QED
      BY Zenon, <1>2, <3>2, <3>3 DEF MaybeCoin
  <2>4. cs[k] \in Seq(MaybeCoin) /\ Len(cs[k]) = Len(Inputs[txs[k]])
    BY Zenon, <1>2
  <2> QED
    BY <2>3, <2>4
<1>4. cs \in Seq(Seq(Coin))
  BY <1>2, <1>3
<1> QED
  BY Zenon, <1>1, <1>4

LEMMA ConnectKeeps ==
  ASSUME CoinsInv, NEW txs \in Candidates, Connect(txs)
  PROVE  CoinsInv'
<1>1. PICK r : r = VerifyInputs(txs)
  BY Zenon
<1>2. PICK c \in Seq(Block) : c = chain
  BY Zenon, InvFacts
<1>3. PICK b : b = [txs |-> txs, undo |-> r.undo]
  BY Zenon
<1>4. b.txs = txs /\ b.undo = r.undo
  BY <1>3
<1>5. PICK hist : hist = History(Append(c, b))
  BY Zenon
<1>6. PICK base : base = Len(History(c))
  BY Zenon
<1>7. /\ Continues(hist, base, txs, Len(c) + 1)
      /\ \A x : CoinOf(hist, base, x) = CoinOf(History(c), base, x)
      /\ DOMAIN txs = 1 .. Len(txs)
  BY <1>4, <1>5, <1>6, BlockContinues
<1>8. Verified(r, hist, base, txs, Len(c) + 1, Len(txs))
  BY Zenon, <1>1, <1>2, <1>4, <1>5, <1>6, BlockVerified
<1>9. r.ok /\ db' = SaveView(r.view) /\ chain' = Append(c, b) /\ VerifyDuplicates(txs)
  BY Zenon, <1>1, <1>2, <1>3 DEF Connect
<1>10. /\ r \in State
       /\ \A i \in 1 .. Len(txs) : SpendsAt(hist, base + i, Len(c) + 1)
       /\ \A x \in Outpoint : SaveView(r.view)[x] = CoinOf(hist, base + Len(txs), x)
       /\ r.undo = UndoAt(hist, base, txs, Len(txs))
  BY Zenon, <1>8, <1>9 DEF Verified
<1>11. db' = Coins(History(chain'), Len(History(chain')))
  <2>1. db' = [x \in Outpoint |-> db'[x]]
    BY Zenon, <1>9 DEF SaveView
  <2>2. Len(hist) = base + Len(txs)
    BY Zenon, <1>7 DEF Continues
  <2>3. \A x \in Outpoint : db'[x] = CoinOf(hist, Len(hist), x)
    BY Zenon, <1>9, <1>10, <2>2
  <2>4. db' = [x \in Outpoint |-> CoinOf(hist, Len(hist), x)]
    BY Zenon, <2>1, <2>3
  <2> QED
    BY Zenon, <1>5, <1>9, <2>4 DEF Coins
<1>12. b \in Block /\ chain' \in Seq(Block)
  <2>1. r.undo \in Seq(Coin)
    BY Zenon, <1>10 DEF State
  <2>2. b \in Block
    BY <1>3, <2>1 DEF Block
  <2> QED
    BY <1>9, <2>2
<1>13. Revertible(c, b)
  <2>1. ASSUME NEW i \in DOMAIN txs, NEW o \in Outputs[txs[i]]
        PROVE  CoinOf(History(c), Len(History(c)), o) = NoCoin
    <3>1. txs[i] \in Tx
      BY Zenon, <1>7, ElementOfSeq DEF Continues
    <3>2. o \in Outpoint
      BY Zenon, <3>1, TxAssumption
    <3>3. db[o] = NoCoin
      BY Zenon, <1>9 DEF VerifyDuplicates, HasCoins
    <3> QED
      BY Zenon, <1>2, <3>2, <3>3, InvFacts
  <2>2. PICK cs : cs = ConsumedBy(hist, base, txs)
    BY Zenon
  <2>3. cs \in Seq(Seq(Coin))
    BY Zenon, <1>7, <1>10, <2>2, CheckedConsumes
  <2>4. Len(cs) = Len(txs)
    BY Zenon, <1>7, <2>2, ConsumedLen
  <2>5. SubSeq(cs, 1, Len(cs)) = cs
    BY <2>3
  <2>6. b.undo = FlattenSeq(cs)
    BY Zenon, <1>4, <1>10, <2>2, <2>4, <2>5 DEF UndoAt
  <2>7. cs = Consumed(c, b)
    BY Zenon, <1>4, <1>5, <1>6, <2>2 DEF Consumed, ConsumedBy
  <2> QED
    BY Zenon, <1>4, <2>1, <2>3, <2>6, <2>7 DEF Revertible
<1>14. ASSUME NEW h \in 1 .. Len(chain')
       PROVE  Revertible(SubSeq(chain', 1, h - 1), chain'[h])
  <2>1. CASE h = Len(c) + 1
    <3>1. SubSeq(chain', 1, h - 1) = c /\ chain'[h] = b
      BY <1>9, <1>12, <2>1
    <3> QED
      BY Zenon, <1>13, <3>1
  <2>2. CASE h # Len(c) + 1
    <3>1. h \in 1 .. Len(c) /\ SubSeq(chain', 1, h - 1) = SubSeq(c, 1, h - 1) /\ chain'[h] = c[h]
      BY <1>9, <1>12, <2>2
    <3> QED
      BY Zenon, <1>2, <3>1 DEF CoinsInv
  <2> QED
    BY Zenon, <2>1, <2>2
<1> QED
  BY Zenon, <1>11, <1>12, <1>14 DEF CoinsInv, Block

LEMMA DisconnectKeeps ==
  ASSUME CoinsInv, Disconnect
  PROVE  CoinsInv'
<1>1. PICK d \in Seq(Block) : d = chain
  BY Zenon, InvFacts
<1>2. PICK r : r = RevertBlock(Last(chain).txs, Last(chain).undo, Len(chain))
  BY Zenon
<1>3. PICK c : c = Front(d)
  BY Zenon
<1>4. chain # << >> /\ db' = SaveView(r.view) /\ chain' = c
  BY Zenon, <1>1, <1>2, <1>3 DEF Disconnect
<1>5. \A x \in Outpoint : SaveView(r.view)[x] = CoinOf(History(c), Len(History(c)), x)
  BY <1>1, <1>2, <1>3, <1>4, TipReverts
<1>6. db' = Coins(History(chain'), Len(History(chain')))
  <2>1. db' = [x \in Outpoint |-> db'[x]]
    BY Zenon, <1>4 DEF SaveView
  <2>2. \A x \in Outpoint : db'[x] = CoinOf(History(c), Len(History(c)), x)
    BY Zenon, <1>4, <1>5
  <2>3. db' = [x \in Outpoint |-> CoinOf(History(c), Len(History(c)), x)]
    BY Zenon, <2>1, <2>2
  <2> QED
    BY Zenon, <1>4, <2>3 DEF Coins
<1>7. /\ c \in Seq(Block)
      /\ \A h \in 1 .. Len(c) : /\ h \in 1 .. Len(d) /\ c[h] = d[h]
                                /\ SubSeq(c, 1, h - 1) = SubSeq(d, 1, h - 1)
  <2>1. d # << >>
    BY Zenon, <1>1, <1>4
  <2>2. c = SubSeq(d, 1, Len(d) - 1) /\ Len(d) \in Nat /\ Len(d) > 0
    BY <1>3, <2>1 DEF Front
  <2> QED
    BY <2>2
<1>8. \A h \in 1 .. Len(c) : Revertible(SubSeq(c, 1, h - 1), c[h])
  BY Zenon, <1>1, <1>7 DEF CoinsInv
<1> QED
  BY Zenon, <1>4, <1>6, <1>7, <1>8 DEF CoinsInv, Block

\* In every reachable state the coin records are the coins of the history of
\* the chain, and every block of the chain carries the undo record that leads
\* back from its own coins to those of the chain below it.
THEOREM CoinsInvariance == Spec => []CoinsInv
<1>1. Init => CoinsInv
  BY Zenon, InitCoins
<1>2. CoinsInv /\ [Next]_vars => CoinsInv'
  <2> SUFFICES ASSUME CoinsInv, [Next]_vars PROVE CoinsInv'
    OBVIOUS
  <2>1. CASE Disconnect
    BY Zenon, <2>1, DisconnectKeeps
  <2>2. ASSUME NEW txs \in Candidates, Connect(txs) PROVE CoinsInv'
    BY Zenon, <2>2, ConnectKeeps
  <2>3. CASE UNCHANGED vars
    BY Zenon, <2>3 DEF vars, CoinsInv
  <2> QED
    BY Zenon, <2>1, <2>2, <2>3 DEF Next
<1> QED
  BY <1>1, <1>2, PTL DEF Spec

\* Whatever blocks were connected and disconnected, the coin records are the
\* outputs that the chain creates and does not consume: btc_view_spend,
\* btc_chaindb_save_view and btc_chaindb_disconnect_block keep them so for
\* any transactions and blocks.
THEOREM UnspentCorrect == Spec => []UnspentExactly
<1>1. CoinsInv => UnspentExactly
  BY Zenon, InvFacts DEF UnspentExactly
<1> QED
  BY <1>1, CoinsInvariance, PTL

\* "Undo coins should be empty": for any tip, btc_chaindb_disconnect_block
\* finds a coin for every input and leaves none over.
THEOREM UndoListExact == Spec => []UndoExact
<1>1. CoinsInv => UndoExact
  BY TipReverts DEF UndoExact
<1> QED
  BY <1>1, CoinsInvariance, PTL

\* btc_chain_verify_duplicates and btc_chain_verify_inputs accept a block on
\* top of any reachable chain exactly when the history says that every input
\* is unspent at its place and mature, and no output was unspent before.
THEOREM AcceptanceExact == Spec => []AcceptsExactly
<1>1. ASSUME CoinsInv
      PROVE  AcceptsExactly
  <2> SUFFICES ASSUME NEW txs \in Candidates
               PROVE  LET old  == History(chain)
                          hist == History(Append(chain, [txs |-> txs, undo |-> <<>>]))
                      IN  (VerifyDuplicates(txs) /\ VerifyInputs(txs).ok) <=>
                            /\ \A i \in DOMAIN txs : \A o \in Outputs[txs[i]] :
                                    CoinOf(old, Len(old), o) = NoCoin
                            /\ \A n \in Len(old) + 1 .. Len(hist) :
                                    SpendsAt(hist, n, Len(chain) + 1)
    BY Zenon DEF AcceptsExactly, SpendsAt
  <2>1. PICK c \in Seq(Block) : c = chain
    BY Zenon, <1>1, InvFacts
  <2>2. PICK b : b = [txs |-> txs, undo |-> <<>>]
    BY Zenon
  <2>3. b.txs = txs
    BY <2>2
  <2>4. PICK hist : hist = History(Append(c, b))
    BY Zenon
  <2>5. PICK base : base = Len(History(c))
    BY Zenon
  <2>6. Continues(hist, base, txs, Len(c) + 1)
    BY <2>3, <2>4, <2>5, BlockContinues
  <2>7. Verified(VerifyInputs(txs), hist, base, txs, Len(c) + 1, Len(txs))
    BY Zenon, <1>1, <2>1, <2>3, <2>4, <2>5, BlockVerified
  <2>8. VerifyInputs(txs).ok <=> \A i \in 1 .. Len(txs) : SpendsAt(hist, base + i, Len(c) + 1)
    BY Zenon, <2>7 DEF Verified
  <2>9. /\ \A i \in 1 .. Len(txs) : base + i \in base + 1 .. Len(hist)
        /\ \A n \in base + 1 .. Len(hist) : n - base \in 1 .. Len(txs) /\ base + (n - base) = n
    <3>1. base \in Nat /\ Len(hist) = base + Len(txs) /\ Len(txs) \in Nat
      BY Zenon, <2>6, LenProperties DEF Continues
    <3> QED
      BY <3>1
  <2>10. VerifyInputs(txs).ok <=>
             \A n \in base + 1 .. Len(hist) : SpendsAt(hist, n, Len(c) + 1)
    BY Zenon, <2>8, <2>9
  <2>11. ASSUME NEW i \in DOMAIN txs, NEW o \in Outputs[txs[i]]
         PROVE  db[o] = CoinOf(History(c), Len(History(c)), o)
    <3>1. txs[i] \in Tx
      BY Zenon, <2>6, LenProperties, ElementOfSeq DEF Continues
    <3>2. o \in Outpoint
      BY Zenon, <3>1, TxAssumption
    <3> QED
      BY Zenon, <1>1, <2>1, <3>2, InvFacts
  <2>12. VerifyDuplicates(txs) <=>
             \A i \in DOMAIN txs : \A o \in Outputs[txs[i]] :
                 CoinOf(History(c), Len(History(c)), o) = NoCoin
    BY Zenon, <2>11 DEF VerifyDuplicates, HasCoins
  <2> QED
    BY Zenon, <2>1, <2>2, <2>4, <2>5, <2>10, <2>12
<1> QED
  BY <1>1, CoinsInvariance, PTL
=============================================================================
