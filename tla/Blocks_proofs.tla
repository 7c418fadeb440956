---------------------------- MODULE Blocks_proofs ---------------------------
(***************************************************************************)
(* Facts about the block tree and the coin arithmetic of Blocks, for every *)
(* tree that satisfies its assumptions.                                    *)
(***************************************************************************)
EXTENDS Blocks, SequenceTheorems, WellFoundedInduction, TLAPS

\* Every non-empty set of naturals has a least element.
LEMMA LeastNat ==
  ASSUME NEW T, T \subseteq Nat, T # {}
  PROVE  \E x \in T : \A y \in T : x <= y
<1>1. PICK x \in T : \A y \in T : ~ (<<y, x>> \in OpToRel(<, Nat))
  BY Zenon, NatLessThanWellFounded, WFMin
<1>2. ASSUME NEW y \in T PROVE x <= y
  <2>1. <<y, x>> \in OpToRel(<, Nat) <=> y < x
    BY x \in Nat, y \in Nat DEF OpToRel
  <2>2. ~ (y < x)
    BY <1>1, <2>1, Zenon
  <2> QED
    BY <2>2, x \in Nat, y \in Nat
<1> QED
  BY <1>2

\* Induction along entry->prev: a set of blocks that holds the genesis block,
\* and every block whose parent it holds, holds all blocks.
LEMMA BlockInduction ==
  ASSUME NEW S, Genesis \in S,
         \A b \in Block \ {Genesis} : Prev[b] \in S => b \in S
  PROVE  \A b \in Block : b \in S
<1> SUFFICES ASSUME \E b \in Block : b \notin S PROVE FALSE
  BY Zenon
<1> DEFINE T == {Height[b] : b \in Block \ S}
<1>1. T \subseteq Nat /\ T # {}
  BY TreeAssumption
<1>2. PICK h \in T : \A k \in T : h <= k
  BY Zenon, <1>1, LeastNat
<1>3. PICK b \in Block \ S : Height[b] = h
  BY <1>2
<1>4. b # Genesis
  BY <1>3
<1>5. Prev[b] \in Block /\ Height[b] = Height[Prev[b]] + 1 /\ Height[Prev[b]] \in Nat
  BY <1>3, <1>4, TreeAssumption
<1>6. Prev[b] \notin S
  BY <1>3, <1>4
<1>7. Height[Prev[b]] \in T
  BY <1>5, <1>6
<1>8. h <= Height[Prev[b]]
  BY <1>2, <1>7
<1> QED
  BY <1>3, <1>5, <1>8

\* A path starts in the genesis block, ends in its block, and has as many
\* blocks as db->heights has after connecting that block.
LEMMA PathShape ==
  ASSUME NEW b \in Block
  PROVE  /\ Path[b] \in Seq(Block)
         /\ Len(Path[b]) = Height[b] + 1
         /\ Path[b][Height[b] + 1] = b
         /\ Path[b][1] = Genesis
<1> DEFINE S == {a \in Block : /\ Len(Path[a]) = Height[a] + 1
                               /\ Path[a][Height[a] + 1] = a
                               /\ Path[a][1] = Genesis}
<1>1. Genesis \in S
  <2>1. Len(<<Genesis>>) = 1 /\ <<Genesis>>[1] = Genesis
    OBVIOUS
  <2>2. Genesis \in Block /\ Path[Genesis] = <<Genesis>> /\ Height[Genesis] + 1 = 1
    BY TreeAssumption, PathAssumption
  <2> QED
    BY <2>1, <2>2, Zenon
<1>2. ASSUME NEW a \in Block \ {Genesis}, Prev[a] \in S PROVE a \in S
  <2>1. /\ Prev[a] \in Block /\ Height[Prev[a]] \in Nat
        /\ Height[a] = Height[Prev[a]] + 1
        /\ Path[Prev[a]] \in Seq(Block)
        /\ Path[a] = Append(Path[Prev[a]], a)
    BY TreeAssumption, PathAssumption
  <2>2. /\ Len(Path[Prev[a]]) = Height[a]
        /\ Path[Prev[a]][1] = Genesis
    BY <1>2, <2>1
  <2>3. /\ Len(Path[a]) = Height[a] + 1
        /\ \A i \in 1 .. Height[a] : Path[a][i] = Path[Prev[a]][i]
        /\ Path[a][Height[a] + 1] = a
    BY <2>1, <2>2, AppendProperties
  <2>4. Path[a][1] = Path[Prev[a]][1]
    BY <2>1, <2>3, 1 \in 1 .. Height[a]
  <2> QED
    BY <2>2, <2>3, <2>4
<1> HIDE DEF S
<1>3. b \in S
  BY <1>1, <1>2, BlockInduction
<1> QED
  BY <1>3, PathAssumption DEF S

\* The path of a block extends that of its parent by one.
LEMMA PathOfChild ==
  ASSUME NEW b \in Block \ {Genesis}
  PROVE  /\ Prev[b] \in Block
         /\ Height[b] = Height[Prev[b]] + 1
         /\ Path[b] = Append(Path[Prev[b]], b)
         /\ Path[Prev[b]] = SubSeq(Path[b], 1, Len(Path[b]) - 1)
         /\ \A i \in 1 .. Height[b] : Path[b][i] = Path[Prev[b]][i]
<1>1. /\ Prev[b] \in Block /\ Height[Prev[b]] \in Nat
      /\ Height[b] = Height[Prev[b]] + 1
      /\ Path[b] = Append(Path[Prev[b]], b)
  BY TreeAssumption, PathAssumption
<1>2. /\ Path[b] \in Seq(Block) /\ Len(Path[b]) = Height[b] + 1
      /\ Path[Prev[b]] \in Seq(Block) /\ Len(Path[Prev[b]]) = Height[b]
  BY <1>1, PathShape
<1>3. \A i \in 1 .. Height[b] : Path[b][i] = Path[Prev[b]][i]
  BY <1>1, <1>2, AppendProperties
<1>4. Path[Prev[b]] = SubSeq(Path[b], 1, Len(Path[b]) - 1)
  BY <1>1, <1>2, <1>3, SubSeqProperties, SeqEqual
<1> QED
  BY Zenon, <1>1, <1>3, <1>4

\* What the provers need of the paths of a block and of its parent, in one fact.
LEMMA ChildShape ==
  ASSUME NEW b \in Block \ {Genesis}
  PROVE  /\ Prev[b] \in Block /\ Height[b] \in Nat
         /\ Path[b] \in Seq(Block) /\ Path[Prev[b]] \in Seq(Block)
         /\ Len(Path[b]) = Height[b] + 1 /\ Path[b][Height[b] + 1] = b
         /\ Len(Path[Prev[b]]) = Height[b]
         /\ \A j \in 1 .. Height[b] : Path[b][j] = Path[Prev[b]][j]
<1>1. /\ Prev[b] \in Block /\ Height[b] = Height[Prev[b]] + 1
      /\ \A j \in 1 .. Height[b] : Path[b][j] = Path[Prev[b]][j]
  BY PathOfChild
<1>2. Height[b] \in Nat
  BY TreeAssumption
<1>3. /\ Path[b] \in Seq(Block) /\ Len(Path[b]) = Height[b] + 1
      /\ Path[b][Height[b] + 1] = b
  BY PathShape
<1>4. /\ Path[Prev[b]] \in Seq(Block) /\ Len(Path[Prev[b]]) = Height[Prev[b]] + 1
  BY <1>1, PathShape
<1> QED
  BY <1>1, <1>2, <1>3, <1>4

\* The part of a path below one of its blocks is the path of that block.
LEMMA PathPrefix ==
  ASSUME NEW b \in Block, NEW i \in 1 .. Height[b] + 1
  PROVE  /\ Path[b][i] \in Block
         /\ Height[Path[b][i]] = i - 1
         /\ \A j \in 1 .. i : Path[Path[b][i]][j] = Path[b][j]
<1> DEFINE P(a) == \A k \in 1 .. Height[a] + 1 :
                     /\ Path[a][k] \in Block
                     /\ Height[Path[a][k]] = k - 1
                     /\ \A j \in 1 .. k : Path[Path[a][k]][j] = Path[a][j]
           S == {a \in Block : P(a)}
<1>1. Genesis \in S
  BY TreeAssumption, PathShape
<1>2. ASSUME NEW a \in Block \ {Genesis}, Prev[a] \in S PROVE a \in S
  <2>1. /\ Prev[a] \in Block /\ Height[Prev[a]] \in Nat
        /\ Height[a] = Height[Prev[a]] + 1
        /\ \A j \in 1 .. Height[a] : Path[a][j] = Path[Prev[a]][j]
        /\ Path[a][Height[a] + 1] = a
    BY Zenon, PathOfChild, PathShape, TreeAssumption
  <2>2. P(Prev[a])
    BY <1>2
  <2>3. ASSUME NEW k \in 1 .. Height[a] + 1
        PROVE  /\ Path[a][k] \in Block
               /\ Height[Path[a][k]] = k - 1
               /\ \A j \in 1 .. k : Path[Path[a][k]][j] = Path[a][j]
    <3>1. CASE k = Height[a] + 1
      BY <2>1, <3>1
    <3>2. CASE k \in 1 .. Height[a]
      BY <2>1, <2>2, <3>2
    <3> QED
      BY <2>1, <3>1, <3>2
  <2> QED
    BY <2>3
<1> HIDE DEF S
<1>3. b \in S
  BY <1>1, <1>2, BlockInduction
<1> QED
  BY <1>3 DEF S

\* Consecutive blocks of a path are parent and child.
LEMMA PathLink ==
  ASSUME NEW b \in Block, NEW i \in 1 .. Height[b]
  PROVE  /\ Path[b][i] \in Block
         /\ Path[b][i + 1] \in Block \ {Genesis}
         /\ Prev[Path[b][i + 1]] = Path[b][i]
<1> DEFINE c == Path[b][i + 1]
<1>0. Height[b] \in Nat
  BY TreeAssumption
<1>1. /\ c \in Block /\ Height[c] = i
      /\ \A j \in 1 .. i + 1 : Path[c][j] = Path[b][j]
  BY <1>0, PathPrefix, i + 1 \in 1 .. Height[b] + 1
<1>2. c # Genesis
  BY <1>1, TreeAssumption
<1> HIDE DEF c
<1>3. /\ Prev[c] \in Block /\ Height[Prev[c]] = i - 1
      /\ Path[c][i] = Path[Prev[c]][i]
  <2>1. /\ Prev[c] \in Block /\ Height[c] = Height[Prev[c]] + 1
        /\ \A j \in 1 .. Height[c] : Path[c][j] = Path[Prev[c]][j]
    BY <1>1, <1>2, PathOfChild
  <2> QED
    BY <1>1, <2>1, TreeAssumption
<1>4. Path[Prev[c]][i] = Prev[c]
  BY <1>3, PathShape, (i - 1) + 1 = i
<1> QED
  BY <1>1, <1>2, <1>3, <1>4 DEF c
\* The work of a chain grows with every block: no block on a path has more
\* work than the block the path ends in.
LEMMA WorkOnPath ==
  ASSUME NEW b \in Block, NEW i \in 1 .. Height[b] + 1
  PROVE  Work[Path[b][i]] <= Work[b]
<1> DEFINE S == {a \in Block : \A k \in 1 .. Height[a] + 1 : Work[Path[a][k]] <= Work[a]}
<1>1. Genesis \in S
  BY TreeAssumption, WorkAssumption, PathShape
<1>2. ASSUME NEW a \in Block \ {Genesis}, Prev[a] \in S PROVE a \in S
  <2>1. /\ Prev[a] \in Block /\ Height[Prev[a]] \in Nat
        /\ Height[a] = Height[Prev[a]] + 1
        /\ \A j \in 1 .. Height[a] : Path[a][j] = Path[Prev[a]][j]
        /\ Path[a][Height[a] + 1] = a
    BY Zenon, PathOfChild, PathShape, TreeAssumption
  <2>2. /\ Work[a] \in Nat /\ Work[Prev[a]] \in Nat /\ Work[a] > Work[Prev[a]]
    BY <2>1, WorkAssumption
  <2>3. ASSUME NEW k \in 1 .. Height[a] + 1 PROVE Work[Path[a][k]] <= Work[a]
    <3>1. CASE k = Height[a] + 1
      BY <2>1, <2>2, <3>1
    <3>2. CASE k \in 1 .. Height[a]
      <4>1. Path[a][k] = Path[Prev[a]][k] /\ k \in 1 .. Height[Prev[a]] + 1
        BY <2>1, <3>2
      <4>2. Work[Path[a][k]] <= Work[Prev[a]]
        BY <1>2, <4>1
      <4>3. Path[a][k] \in Block
        BY <2>1, <4>1, PathPrefix
      <4>4. Work[Path[a][k]] \in Nat
        BY <4>3, WorkAssumption
      <4> QED
        BY <2>2, <4>2, <4>4
    <3> QED
      BY <2>1, <3>1, <3>2
  <2> QED
    BY <2>3
<1> HIDE DEF S
<1>3. b \in S
  BY <1>1, <1>2, BlockInduction
<1> QED
  BY <1>3 DEF S

\* An index that holds the parents of its blocks holds their whole paths.
LEMMA PathIndexed ==
  ASSUME NEW I, I \subseteq Block, \A a \in I \ {Genesis} : Prev[a] \in I,
         NEW b \in I, NEW i \in 1 .. Height[b] + 1
  PROVE  Path[b][i] \in I
<1> DEFINE S == {a \in Block : a \in I => \A k \in 1 .. Height[a] + 1 : Path[a][k] \in I}
<1>1. Genesis \in S
  BY TreeAssumption, PathShape
<1>2. ASSUME NEW a \in Block \ {Genesis}, Prev[a] \in S PROVE a \in S
  <2>1. /\ Prev[a] \in Block /\ Height[Prev[a]] \in Nat
        /\ Height[a] = Height[Prev[a]] + 1
        /\ \A j \in 1 .. Height[a] : Path[a][j] = Path[Prev[a]][j]
        /\ Path[a][Height[a] + 1] = a
    BY Zenon, PathOfChild, PathShape, TreeAssumption
  <2>2. ASSUME a \in I, NEW k \in 1 .. Height[a] + 1 PROVE Path[a][k] \in I
    <3>1. CASE k = Height[a] + 1
      BY <2>1, <2>2, <3>1
    <3>2. CASE k \in 1 .. Height[a]
      BY <1>2, <2>1, <2>2, <3>2
    <3> QED
      BY <2>1, <3>1, <3>2
  <2> QED
    BY <2>2
<1> HIDE DEF S
<1>3. b \in S
  BY <1>1, <1>2, BlockInduction
<1> QED
  BY <1>3 DEF S

\* Ancestors: a block is its own, a child has those of its parent, and
\* a proper ancestor of a block is one of its parent.
LEMMA AncestorSelf ==
  ASSUME NEW b \in Block PROVE IsAncestor(b, b)
  BY PathShape, TreeAssumption DEF IsAncestor

LEMMA AncestorChild ==
  ASSUME NEW a \in Block, NEW b \in Block \ {Genesis}
  PROVE  /\ IsAncestor(a, Prev[b]) => IsAncestor(a, b)
         /\ IsAncestor(a, b) /\ a # b => IsAncestor(a, Prev[b])
<1>1. /\ Prev[b] \in Block /\ Height[Prev[b]] \in Nat
      /\ Height[a] \in Nat /\ Height[b] = Height[Prev[b]] + 1
      /\ \A j \in 1 .. Height[b] : Path[b][j] = Path[Prev[b]][j]
      /\ Path[b][Height[b] + 1] = b
      /\ Len(Path[b]) = Height[b] + 1
      /\ Len(Path[Prev[b]]) = Height[b]
  BY PathOfChild, PathShape, TreeAssumption
<1>2. ASSUME IsAncestor(a, Prev[b]) PROVE IsAncestor(a, b)
  <2>1. Height[a] + 1 \in 1 .. Height[b] /\ Path[Prev[b]][Height[a] + 1] = a
    BY <1>1, <1>2 DEF IsAncestor
  <2> QED
    BY <1>1, <2>1 DEF IsAncestor
<1>3. ASSUME IsAncestor(a, b), a # b PROVE IsAncestor(a, Prev[b])
  <2> DEFINE k == Height[a] + 1
  <2>1. Height[a] # Height[b]
    BY <1>1, <1>3 DEF IsAncestor
  <2>2. k \in 1 .. Height[b] /\ Path[b][k] = a
    BY <1>1, <1>3, <2>1 DEF IsAncestor
  <2>3. Path[Prev[b]][k] = a /\ Height[a] < Height[b]
    <3>1. Height[a] < Height[b]
      BY <1>1, <2>2
    <3> HIDE DEF k
    <3>2. Path[b][k] = Path[Prev[b]][k]
      BY <1>1, <2>2
    <3> QED
      BY <2>2, <3>1, <3>2
  <2> QED
    BY <1>1, <2>3 DEF IsAncestor
<1> QED
  BY <1>2, <1>3

\* The genesis block is below every block, and nothing is below it.
LEMMA AncestorGenesis ==
  ASSUME NEW a \in Block PROVE IsAncestor(a, Genesis) => a = Genesis
  BY PathShape, TreeAssumption DEF IsAncestor

\* The next block of the connect loop is a child of the tip, and still on
\* the path to the target.
LEMMA StepUp ==
  ASSUME NEW t \in Block, NEW g \in Block, IsAncestor(t, g), t # g
  PROVE  LET c == Path[g][Height[t] + 2]
         IN  /\ c \in Block \ {Genesis}
             /\ Prev[c] = t
             /\ Height[c] = Height[t] + 1
             /\ IsAncestor(c, g)
             /\ Height[t] + 2 \in 1 .. Height[g] + 1
<1> DEFINE c == Path[g][Height[t] + 2]
<1>1. /\ Height[t] \in Nat /\ Height[g] \in Nat /\ Len(Path[g]) = Height[g] + 1
      /\ Path[g][Height[g] + 1] = g
      /\ Path[g][Height[t] + 1] = t
      /\ Height[t] < Height[g] + 1
  BY PathShape, TreeAssumption DEF IsAncestor
<1>2. Height[t] + 1 \in 1 .. Height[g]
  BY <1>1
<1>3. (Height[t] + 1) + 1 = Height[t] + 2
  BY <1>1
<1>4. c \in Block \ {Genesis} /\ Prev[c] = t
  BY <1>1, <1>2, <1>3, PathLink
<1>5. Height[c] = Height[t] + 1
  BY <1>4, PathOfChild
<1>6. Path[g][Height[c] + 1] = c /\ Height[c] < Len(Path[g])
  BY <1>1, <1>2, <1>3, <1>5
<1> QED
  BY <1>1, <1>2, <1>4, <1>5, <1>6 DEF IsAncestor
-----------------------------------------------------------------------------
\* A child is good if and only if its parent is good and it is valid on the
\* coins of its parent.
LEMMA GoodChild ==
  ASSUME NEW b \in Block \ {Genesis}
  PROVE  Good(b) <=> Good(Prev[b]) /\ ValidOn(Replay[Prev[b]], b)
<1> DEFINE V(x) == ValidOn(Replay[Prev[x]], x)
<1>1. /\ Prev[b] \in Block /\ Height[Prev[b]] \in Nat
      /\ Height[b] = Height[Prev[b]] + 1
      /\ \A i \in 1 .. Height[b] : Path[b][i] = Path[Prev[b]][i]
  BY PathOfChild, TreeAssumption
<1>2. /\ Len(Path[b]) = Height[b] + 1 /\ Path[b][Height[b] + 1] = b
      /\ Len(Path[Prev[b]]) = Height[b]
  BY <1>1, PathShape
<1>3. Good(b) <=> \A i \in 2 .. Height[b] + 1 : V(Path[b][i])
  BY <1>2 DEF Good
<1>4. Good(Prev[b]) <=> \A i \in 2 .. Height[b] : V(Path[Prev[b]][i])
  BY <1>2 DEF Good
<1> HIDE DEF V
<1>5. Good(b) => Good(Prev[b]) /\ V(b)
  <2> HAVE Good(b)
  <2>1. V(b)
    BY <1>1, <1>2, <1>3, Height[b] + 1 \in 2 .. Height[b] + 1
  <2>2. ASSUME NEW i \in 2 .. Height[b] PROVE V(Path[Prev[b]][i])
    BY <1>1, <1>3, i \in 2 .. Height[b] + 1, i \in 1 .. Height[b]
  <2> QED
    BY <1>4, <2>1, <2>2
<1>6. Good(Prev[b]) /\ V(b) => Good(b)
  <2> SUFFICES ASSUME Good(Prev[b]), V(b), NEW i \in 2 .. Height[b] + 1
               PROVE  V(Path[b][i])
    BY <1>3
  <2>1. CASE i = Height[b] + 1
    BY <1>2, <2>1
  <2>2. CASE i \in 2 .. Height[b]
    BY <1>1, <1>4, <2>2
  <2> QED
    BY <1>1, <2>1, <2>2
<1> QED
  BY <1>5, <1>6 DEF V

LEMMA GoodGenesis == Good(Genesis)
  BY PathShape, TreeAssumption DEF Good

\* All blocks on the path of a good block are good and valid in their place.
LEMMA GoodPath ==
  ASSUME NEW b \in Block, Good(b), NEW i \in 1 .. Height[b] + 1
  PROVE  /\ Good(Path[b][i])
         /\ i > 1 => ValidOn(Replay[Prev[Path[b][i]]], Path[b][i])
<1> DEFINE a == Path[b][i]
<1>0. Height[b] \in Nat
  BY TreeAssumption
<1>1. /\ a \in Block /\ Height[a] = i - 1
      /\ \A j \in 1 .. i : Path[a][j] = Path[b][j]
  BY PathPrefix
<1>2. Len(Path[a]) = i /\ Len(Path[b]) = Height[b] + 1
  BY <1>1, PathShape
<1>3. ASSUME NEW j \in 2 .. i
      PROVE  ValidOn(Replay[Prev[Path[b][j]]], Path[b][j])
  BY <1>0, <1>2, j \in 2 .. Height[b] + 1 DEF Good
<1>4. Good(a)
  <2> SUFFICES ASSUME NEW j \in 2 .. Len(Path[a])
               PROVE  ValidOn(Replay[Prev[Path[a][j]]], Path[a][j])
    BY DEF Good
  <2>1. j \in 2 .. i /\ Path[a][j] = Path[b][j]
    BY <1>1, <1>2
  <2> QED
    BY <1>3, <2>1
<1>5. i > 1 => ValidOn(Replay[Prev[Path[b][i]]], Path[b][i])
  BY <1>3
<1> QED
  BY <1>4, <1>5

-----------------------------------------------------------------------------
LEMMA CoinsType ==
  ASSUME NEW c \in Coins, NEW u \in Coins, NEW b \in Block
  PROVE  /\ ConnectCoins(c, b) \in Coins
         /\ UndoOf(c, b) \in Coins
         /\ DisconnectCoins(c, b, u) \in Coins
  BY TreeAssumption DEF Coins, ConnectCoins, UndoOf, DisconnectCoins, None

\* The coins that a valid block creates do not exist before it.
LEMMA CreatedAreNew ==
  ASSUME NEW b \in Block \ {Genesis}, VerifyInputs(Replay[Prev[b]], b)
  PROVE  \A o \in Created[b] : Replay[Prev[b]][o] = None
  BY Bip34Assumption DEF VerifyInputs

(***************************************************************************)
(* Disconnecting a valid block with the undo record made when it was       *)
(* connected gives back, coin for coin, the database of its parent:        *)
(* btc_chaindb_disconnect_block inverts btc_chaindb_connect_block.  BIP30  *)
(* is what makes it true: an overwritten coin could not be brought back.   *)
(***************************************************************************)
THEOREM DisconnectInverts ==
  ASSUME NEW b \in Block \ {Genesis}, VerifyInputs(Replay[Prev[b]], b)
  PROVE  DisconnectCoins(Replay[b], b, UndoOf(Replay[Prev[b]], b)) = Replay[Prev[b]]
<1> DEFINE c == Replay[Prev[b]]
           d == DisconnectCoins(Replay[b], b, UndoOf(c, b))
<1>1. c \in Coins
  BY TreeAssumption, ReplayAssumption
<1>2. Replay[b] = ConnectCoins(c, b)
  BY ReplayAssumption
<1>3. ASSUME NEW o \in Outpoint PROVE d[o] = c[o]
  <2>1. CASE o \in Created[b]
    BY <2>1, CreatedAreNew DEF DisconnectCoins
  <2>2. CASE o \notin Created[b] /\ o \in Spent[b]
    BY <2>2 DEF DisconnectCoins, UndoOf
  <2>3. CASE o \notin Created[b] /\ o \notin Spent[b]
    BY <1>2, <2>3 DEF DisconnectCoins, ConnectCoins
  <2> QED
    BY <2>1, <2>2, <2>3
<1>4. d \in [Outpoint -> Nat \cup {None}] /\ c \in [Outpoint -> Nat \cup {None}]
  <2>1. UndoOf(c, b) \in Coins /\ Replay[b] \in Coins
    BY Zenon, <1>1, CoinsType, ReplayAssumption
  <2> QED
    BY <1>1, <2>1, CoinsType DEF Coins
<1> QED
  BY <1>3, <1>4
=============================================================================
