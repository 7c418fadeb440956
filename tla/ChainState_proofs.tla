-------------------------- MODULE ChainState_proofs -------------------------
(***************************************************************************)
(* IInv is an inductive invariant of ChainState, for every block tree: the *)
(* coins on disk are those of a replay of the main chain in every state,   *)
(* and ChainState implements the abstract Ledger.                          *)
(***************************************************************************)
EXTENDS ChainState, Blocks_proofs

LEMMA IdleType == Idle \in Job /\ Idle.phase = "idle"
  BY TreeAssumption DEF Idle, Job, Phase, Body

LEMMA InitIInv == Init => IInv
<1> SUFFICES ASSUME Init PROVE IInv
  OBVIOUS
<1> USE DEF Init
<1>1. TypeOK
  <2>1. NoCoins \in Coins
    BY DEF NoCoins, Coins
  <2>2. NoUndo \in Undo
    BY DEF Undo
  <2>3. <<Genesis>> \in Seq(Block) /\ << >> \in Seq(Orphan)
    BY TreeAssumption
  <2> QED
    BY <2>1, <2>2, <2>3, IdleType, TreeAssumption, OrphanAssumption DEF TypeOK
<1>2. ChainOnDisk
  <2>1. Range(<<Genesis>>) = {Genesis}
    BY DEF Range
  <2> QED
    BY <2>1, PathAssumption DEF ChainOnDisk
<1>3. CoinsReplayTip
  BY ReplayAssumption DEF CoinsReplayTip
<1>4. MainIsGood
  BY GoodGenesis DEF MainIsGood
<1>5. UndoSound
  <2>1. \A i \in DOMAIN <<Genesis>> : <<Genesis>>[i] = Genesis
    OBVIOUS
  <2> QED
    BY <2>1, TreeAssumption, EffectAssumption DEF UndoSound
<1>6. InvalidSound
  BY Zenon DEF InvalidSound
<1>7. JobSound
  BY IdleType DEF JobSound, Moving
<1>8. Screened
  BY DEF Screened
<1> QED
  BY <1>1, <1>2, <1>3, <1>4, <1>5, <1>6, <1>7, <1>8 DEF IInv

-----------------------------------------------------------------------------
\* Connecting a valid child of the tip keeps the disk in order.
LEMMA ConnectBlockKeeps ==
  ASSUME IInv, NEW b \in Block \ {Genesis}, Prev[b] = tip, ValidOn(coins, b),
         ConnectBlock(b)
  PROVE  /\ coins' \in Coins /\ undo' \in [Block -> Undo] /\ meta' \in Block
         /\ heights' \in Seq(Block) /\ tip' \in Block
         /\ tip' = b /\ meta' = b /\ heights' = Path[b]
         /\ coins' = Replay[b]
         /\ Good(b)
         /\ UndoSound'
<1>1. /\ coins \in Coins /\ undo \in [Block -> Undo] /\ tip \in Block
      /\ heights = Path[tip] /\ coins = Replay[tip] /\ Good(tip)
      /\ tip = meta
  BY DEF IInv, TypeOK, ChainOnDisk, CoinsReplayTip, MainIsGood
<1>2. /\ tip' = b /\ meta' = b /\ coins' = ConnectCoins(coins, b)
      /\ heights' = Append(heights, b)
  BY DEF ConnectBlock
<1>3. heights' = Path[b] /\ Path[b] \in Seq(Block)
  <2>1. heights' = Append(Path[tip], b)
    BY Zenon, <1>1, <1>2
  <2> QED
    BY <1>1, <2>1, PathOfChild, PathShape
<1>4. coins' = Replay[b] /\ coins' \in Coins
  BY <1>1, <1>2, ReplayAssumption
<1>5. Good(b)
  BY <1>1, GoodChild
<1> DEFINE r == [kind |-> "coins", coins |-> UndoOf(coins, b)]
<1>6. r \in Undo /\ r # NoUndo /\ r.coins = UndoOf(Replay[Prev[b]], b)
  BY <1>1, CoinsType DEF Undo, NoUndo
<1>7. undo' = IF Spent[b] # {} /\ undo[b] = NoUndo THEN [undo EXCEPT ![b] = r] ELSE undo
  BY DEF ConnectBlock
<1> HIDE DEF r
<1>8. undo' \in [Block -> Undo]
  BY <1>1, <1>6, <1>7
<1>9. \A x \in Block \ {Genesis} : undo'[x] # NoUndo =>
            undo'[x].coins = UndoOf(Replay[Prev[x]], x)
  BY <1>1, <1>6, <1>7 DEF IInv, UndoSound
<1>10. ASSUME NEW i \in DOMAIN heights', Spent[heights'[i]] # {}
       PROVE  undo'[heights'[i]] # NoUndo
  <2>1. /\ Len(Path[b]) = Height[b] + 1 /\ Height[b] \in Nat
        /\ Path[b][Height[b] + 1] = b
        /\ Len(Path[tip]) = Height[b]
        /\ Path[tip] \in Seq(Block)
        /\ \A j \in 1 .. Height[b] : Path[b][j] = Path[tip][j]
    BY ChildShape
  <2>2. i \in 1 .. Height[b] + 1
    BY <1>3, <2>1
  <2>3. CASE i = Height[b] + 1
    BY <1>1, <1>3, <1>6, <1>7, <1>10, <2>1, <2>3
  <2>4. CASE i \in 1 .. Height[b]
    <3>1. heights'[i] = heights[i] /\ i \in DOMAIN heights /\ heights[i] \in Block
      BY <1>1, <1>3, <2>1, <2>4
    <3>2. undo[heights[i]] # NoUndo
      BY <1>10, <3>1 DEF IInv, UndoSound
    <3> QED
      BY <1>1, <1>6, <1>7, <3>1, <3>2
  <2> QED
    BY <2>1, <2>2, <2>3, <2>4
<1> QED
  BY Zenon, <1>1, <1>2, <1>3, <1>4, <1>5, <1>8, <1>9, <1>10 DEF UndoSound

\* Steps that leave the chain alone keep what is said about it.
LEMMA QuietKeeps ==
  ASSUME IInv, UNCHANGED <<index, coins, undo, meta, heights, tip>>
  PROVE  ChainOnDisk' /\ CoinsReplayTip' /\ MainIsGood' /\ UndoSound'
  BY DEF IInv, ChainOnDisk, CoinsReplayTip, MainIsGood, UndoSound

LEMMA AddInvalidChildKeeps ==
  ASSUME IInv, NEW b \in Block, AddInvalidChild(b) PROVE IInv'
<1> USE DEF AddInvalidChild
<1>1. TypeOK'
  BY DEF IInv, TypeOK
<1>2. InvalidSound'
  <2>1. b # Genesis /\ Prev[b] \in invalid
    BY DEF Known
  <2>2. ~Good(b)
    BY <2>1, GoodChild DEF IInv, InvalidSound
  <2> QED
    BY <2>2 DEF IInv, InvalidSound
<1>3. JobSound' /\ Screened'
  BY DEF IInv, JobSound, Screened
<1> QED
  BY <1>1, <1>2, <1>3, QuietKeeps DEF IInv

LEMMA AddInsaneKeeps ==
  ASSUME IInv, NEW b \in Block, NEW body \in Body, AddInsane(b, body) PROVE IInv'
<1> USE DEF AddInsane
<1>1. TypeOK'
  BY DEF IInv, TypeOK
<1>2. InvalidSound'
  <2>1. b # Genesis /\ b \in BadPow \cup BadBody
    BY DEF Known, Fresh
  <2>2. ~Good(b)
    BY <2>1, GoodChild DEF ValidOn
  <2> QED
    BY <2>2 DEF IInv, InvalidSound
<1>3. JobSound' /\ Screened'
  BY DEF IInv, JobSound, Screened
<1> QED
  BY <1>1, <1>2, <1>3, QuietKeeps DEF IInv

\* Evicting orphans drops some at the front, removing one closes the gap.
LEMMA EvictShifts ==
  ASSUME NEW s \in Seq(Orphan), NEW e \in 0 .. Len(s)
  PROVE  /\ Evict(s, e) \in Seq(Orphan)
         /\ Len(s) <= MaxOrphans => Len(Evict(s, e)) < MaxOrphans
         /\ \E d \in Nat : \A i \in DOMAIN Evict(s, e) :
                i \in Nat /\ i + d \in DOMAIN s /\ Evict(s, e)[i] = s[i + d]
<1> DEFINE live == SubSeq(s, e + 1, Len(s))
<1>1. /\ live \in Seq(Orphan) /\ Len(live) = Len(s) - e
      /\ \A i \in 1 .. Len(live) : live[i] = s[e + i]
  BY SubSeqProperties
<1> HIDE DEF live
<1>2. CASE Len(live) < MaxOrphans
  <2>1. Evict(s, e) = live
    BY <1>2 DEF Evict, live
  <2>2. \A i \in DOMAIN live : i \in Nat /\ i + e \in DOMAIN s /\ live[i] = s[i + e]
    BY <1>1
  <2> QED
    BY <1>1, <1>2, <2>1, <2>2
<1>3. CASE ~(Len(live) < MaxOrphans)
  <2>1. live # << >>
    BY <1>1, <1>3, OrphanAssumption
  <2>2. /\ Tail(live) \in Seq(Orphan)
        /\ Len(Tail(live)) = Len(live) - 1
        /\ \A i \in 1 .. Len(Tail(live)) : Tail(live)[i] = live[i + 1]
    BY <1>1, <2>1, HeadTailProperties
  <2>3. ASSUME NEW i \in DOMAIN Tail(live)
        PROVE  i \in Nat /\ i + (e + 1) \in DOMAIN s /\ Tail(live)[i] = s[i + (e + 1)]
    <3>1. i \in 1 .. Len(Tail(live)) /\ i + 1 \in 1 .. Len(live) /\ e + (i + 1) = i + (e + 1)
      BY <1>1, <2>2
    <3>2. i + (e + 1) \in DOMAIN s
      BY <1>1, <2>2, <3>1
    <3>3. Tail(live)[i] = live[i + 1] /\ live[i + 1] = s[e + (i + 1)]
      BY <1>1, <2>2, <3>1
    <3> QED
      BY <3>1, <3>2, <3>3
  <2>4. Evict(s, e) = Tail(live)
    BY <1>3 DEF Evict, live
  <2>5. Len(s) <= MaxOrphans => Len(Tail(live)) < MaxOrphans
    BY <1>1, <2>2, OrphanAssumption
  <2>6. e + 1 \in Nat
    OBVIOUS
  <2> QED
    BY Zenon, <2>2, <2>3, <2>4, <2>5, <2>6
<1> QED
  BY <1>2, <1>3

LEMMA RemoveShifts ==
  ASSUME NEW s \in Seq(Orphan), NEW k \in DOMAIN s
  PROVE  /\ RemoveAt(s, k) \in Seq(Orphan)
         /\ Len(RemoveAt(s, k)) = Len(s) - 1
         /\ \A i \in DOMAIN RemoveAt(s, k) :
                /\ i \in 1 .. Len(s) - 1
                /\ RemoveAt(s, k)[i] = IF i < k THEN s[i] ELSE s[i + 1]
<1> DEFINE p == SubSeq(s, 1, k - 1)
           q == SubSeq(s, k + 1, Len(s))
<1>0. k \in 1 .. Len(s) /\ Len(s) \in Nat
  OBVIOUS
<1>1. /\ p \in Seq(Orphan) /\ Len(p) = k - 1
      /\ \A i \in 1 .. Len(p) : p[i] = s[i]
  BY <1>0, SubSeqProperties
<1>2. /\ q \in Seq(Orphan) /\ Len(q) = Len(s) - k
      /\ \A i \in 1 .. Len(q) : q[i] = s[k + i]
  BY <1>0, SubSeqProperties
<1> HIDE DEF p, q
<1>3. /\ p \o q \in Seq(Orphan) /\ Len(p \o q) = Len(p) + Len(q)
      /\ \A i \in 1 .. Len(p) + Len(q) :
            (p \o q)[i] = IF i <= Len(p) THEN p[i] ELSE q[i - Len(p)]
  BY Zenon, <1>1, <1>2, ConcatProperties
<1>4. RemoveAt(s, k) = p \o q
  BY DEF RemoveAt, p, q
<1>5. DOMAIN (p \o q) = 1 .. Len(s) - 1 /\ Len(p \o q) = Len(s) - 1
  <2>1. Len(p \o q) = Len(s) - 1
    <3>1. Len(p \o q) = Len(p) + Len(q) /\ Len(p) = k - 1 /\ Len(q) = Len(s) - k
      BY Zenon, <1>1, <1>2, <1>3
    <3> QED
      BY <1>0, <3>1
  <2> QED
    BY Zenon, <1>3, <2>1, LenProperties
<1>6. ASSUME NEW i \in 1 .. Len(s) - 1
      PROVE  (p \o q)[i] = IF i < k THEN s[i] ELSE s[i + 1]
  <2>1. i \in 1 .. Len(p) + Len(q)
    BY <1>0, <1>1, <1>2
  <2>2. CASE i < k
    BY <1>0, <1>1, <1>3, <2>1, <2>2
  <2>3. CASE ~(i < k)
    <3>1. ~(i <= Len(p)) /\ i - Len(p) \in 1 .. Len(q) /\ k + (i - Len(p)) = i + 1
      BY <1>0, <1>1, <1>2, <2>3
    <3> QED
      BY <1>2, <1>3, <2>1, <2>3, <3>1
  <2> QED
    BY Zenon, <2>2, <2>3
<1> QED
  BY Zenon, <1>3, <1>4, <1>5, <1>6

\* Evicting and removing orphans leaves some of the orphans there were.
LEMMA EvictKeeps ==
  ASSUME NEW s \in Seq(Orphan), NEW e \in 0 .. Len(s)
  PROVE  /\ Evict(s, e) \in Seq(Orphan)
         /\ Len(s) <= MaxOrphans => Len(Evict(s, e)) < MaxOrphans
         /\ \A i \in DOMAIN Evict(s, e) : \E j \in DOMAIN s : Evict(s, e)[i] = s[j]
  BY EvictShifts

LEMMA RemoveKeeps ==
  ASSUME NEW s \in Seq(Orphan), NEW k \in DOMAIN s
  PROVE  /\ RemoveAt(s, k) \in Seq(Orphan)
         /\ Len(RemoveAt(s, k)) = Len(s) - 1
         /\ \A i \in DOMAIN RemoveAt(s, k) : \E j \in DOMAIN s : RemoveAt(s, k)[i] = s[j]
<1> DEFINE r == RemoveAt(s, k)
<1>1. /\ r \in Seq(Orphan) /\ Len(r) = Len(s) - 1
      /\ \A i \in DOMAIN r : /\ i \in 1 .. Len(s) - 1
                             /\ r[i] = IF i < k THEN s[i] ELSE s[i + 1]
  BY RemoveShifts
<1> HIDE DEF r
<1>2. ASSUME NEW i \in DOMAIN r PROVE \E j \in DOMAIN s : r[i] = s[j]
  <2>1. i \in DOMAIN s /\ i + 1 \in DOMAIN s
    BY <1>1
  <2> QED
    BY <1>1, <2>1
<1> QED
  BY <1>1, <1>2 DEF r

LEMMA StoreOrphanKeeps ==
  ASSUME IInv, NEW b \in Block, NEW body \in Body, StoreOrphan(b, body) PROVE IInv'
<1> DEFINE o == [hash |-> b, body |-> body]
<1>1. o \in Orphan /\ o.hash = b /\ b # Genesis /\ b \notin BadPow \cup BadBody
  BY DEF Orphan, StoreOrphan, Fresh, Known, Sane
<1>2. orphans \in Seq(Orphan) /\ Len(orphans) <= MaxOrphans
  BY DEF IInv, TypeOK
<1>3. \E s \in Seq(Orphan) :
         /\ orphans' = Append(s, o)
         /\ Len(s) < MaxOrphans
         /\ \A i \in DOMAIN s : \E j \in DOMAIN orphans : s[i] = orphans[j]
  <2>1. PICK e \in 0 .. Len(orphans) :
          \/ orphans' = Append(Evict(orphans, e), o)
          \/ \E i \in NextOrphan(Prev[b]) :
                /\ e < Len(orphans)
                /\ orphans' = Append(Evict(RemoveAt(orphans, i), e), o)
    BY DEF StoreOrphan
  <2>2. CASE orphans' = Append(Evict(orphans, e), o)
    BY <1>2, <2>2, EvictKeeps
  <2>3. ASSUME NEW i \in NextOrphan(Prev[b]), e < Len(orphans),
               orphans' = Append(Evict(RemoveAt(orphans, i), e), o)
        PROVE  \E s \in Seq(Orphan) :
                  /\ orphans' = Append(s, o)
                  /\ Len(s) < MaxOrphans
                  /\ \A k \in DOMAIN s : \E j \in DOMAIN orphans : s[k] = orphans[j]
    <3> DEFINE r == RemoveAt(orphans, i)
    <3>1. i \in DOMAIN orphans
      BY DEF NextOrphan
    <3>2. /\ r \in Seq(Orphan) /\ Len(r) = Len(orphans) - 1
          /\ \A k \in DOMAIN r : \E j \in DOMAIN orphans : r[k] = orphans[j]
      BY <1>2, <3>1, RemoveKeeps
    <3> HIDE DEF r
    <3>3. e \in 0 .. Len(r) /\ Len(r) <= MaxOrphans
      BY <1>2, <2>3, <3>2, OrphanAssumption
    <3>4. /\ Evict(r, e) \in Seq(Orphan)
          /\ Len(Evict(r, e)) < MaxOrphans
          /\ \A k \in DOMAIN Evict(r, e) : \E j \in DOMAIN r : Evict(r, e)[k] = r[j]
      BY Zenon, <3>2, <3>3, EvictKeeps
    <3>5. \A k \in DOMAIN Evict(r, e) : \E j \in DOMAIN orphans : Evict(r, e)[k] = orphans[j]
      BY Zenon, <3>2, <3>4
    <3>6. orphans' = Append(Evict(r, e), o)
      BY <2>3 DEF r
    <3> QED
      BY Zenon, <3>4, <3>5, <3>6
  <2> QED
    BY Zenon, <2>1, <2>2, <2>3
<1>4. PICK s \in Seq(Orphan) :
         /\ orphans' = Append(s, o)
         /\ Len(s) < MaxOrphans
         /\ \A i \in DOMAIN s : \E j \in DOMAIN orphans : s[i] = orphans[j]
  BY <1>3
<1>5. /\ orphans' \in Seq(Orphan) /\ Len(orphans') = Len(s) + 1
      /\ Len(s) \in Nat
      /\ \A i \in 1 .. Len(s) : orphans'[i] = s[i]
      /\ orphans'[Len(s) + 1] = o
  BY <1>1, <1>4, AppendProperties
<1> HIDE DEF o
<1>6. TypeOK'
  <2>1. Len(orphans') <= MaxOrphans
    BY <1>4, <1>5, OrphanAssumption
  <2> QED
    BY <1>5, <2>1 DEF IInv, TypeOK, StoreOrphan
<1>7. ASSUME NEW i \in DOMAIN orphans'
      PROVE  orphans'[i].hash # Genesis /\ orphans'[i].hash \notin BadPow \cup BadBody
  <2>1. CASE i = Len(s) + 1
    BY <1>1, <1>5, <2>1
  <2>2. CASE i \in 1 .. Len(s)
    <3>1. PICK j \in DOMAIN orphans : s[i] = orphans[j]
      BY <1>4, <2>2
    <3> QED
      BY <1>5, <2>2, <3>1 DEF IInv, Screened
  <2> QED
    BY <1>5, <2>1, <2>2
<1>8. Screened' /\ InvalidSound' /\ JobSound'
  BY <1>7 DEF IInv, Screened, InvalidSound, JobSound, StoreOrphan
<1> QED
  BY <1>6, <1>8, QuietKeeps DEF IInv, StoreOrphan

-----------------------------------------------------------------------------
LEMMA RangeIndexed ==
  ASSUME NEW I, I \subseteq Block, \A a \in I \ {Genesis} : Prev[a] \in I, NEW t \in I
  PROVE  Range(Path[t]) \subseteq I
<1>1. \A i \in 1 .. Height[t] + 1 : Path[t][i] \in I
  BY PathIndexed
<1>2. DOMAIN Path[t] = 1 .. Height[t] + 1
  BY PathShape
<1> QED
  BY <1>1, <1>2 DEF Range

LEMMA GotoType ==
  ASSUME NEW j \in Job, NEW p \in Phase
  PROVE  /\ Goto(j, p) \in Job
         /\ Goto(j, p).phase = p
         /\ p = "idle" => Goto(j, p) = Idle
         /\ p # "idle" => /\ Goto(j, p).entry = j.entry
                          /\ Goto(j, p).body = j.body
                          /\ Goto(j, p).old = j.old
                          /\ Goto(j, p).fork = j.fork
                          /\ Goto(j, p).target = j.target
                          /\ Goto(j, p).restoring = j.restoring
  BY IdleType DEF Goto, Job

LEMMA ConnectingType ==
  ASSUME NEW b \in Block, NEW body \in Body
  PROVE  /\ Connecting(b, body) \in Job
         /\ Connecting(b, body).phase = "connect"
         /\ Connecting(b, body).entry = b
         /\ ~Connecting(b, body).restoring
  BY Zenon, TreeAssumption DEF Connecting, Idle, Job, Phase, Body

LEMMA AddBlockKeeps ==
  ASSUME IInv, NEW b \in Block, NEW body \in Body, AddBlock(b, body) PROVE IInv'
<1> USE DEF AddBlock
<1>1. b # Genesis /\ b \notin BadPow \cup BadBody
  BY DEF Fresh, Known, Sane
<1>2. TypeOK'
  BY ConnectingType DEF IInv, TypeOK
<1>3. JobSound'
  <2>1. /\ job' = Connecting(b, body) /\ index' = index /\ Prev[b] \in index
    BY DEF Fresh, Known
  <2>2. /\ job'.phase = "connect" /\ job'.entry = b /\ ~job'.restoring
    BY <2>1, ConnectingType
  <2> QED
    BY <1>1, <2>1, <2>2 DEF JobSound, Moving
<1>4. InvalidSound' /\ Screened'
  BY DEF IInv, InvalidSound, Screened
<1> QED
  BY <1>2, <1>3, <1>4, QuietKeeps DEF IInv

\* A block that fails a check other than the malleated ones is not good.
LEMMA BlamedIsBad ==
  ASSUME NEW b \in Block \ {Genesis}, NEW body \in Body,
         Verify(b, body) => ~VerifyInputs(Replay[Prev[b]], b)
  PROVE  Blamed(b, body) \subseteq Block /\ \A x \in Blamed(b, body) : ~Good(x)
  BY GoodChild DEF Blamed, Verify, ValidOn

LEMMA SaveEntryKeeps ==
  ASSUME IInv, NEW b \in Block \ {Genesis}, SaveEntry(b), Prev[b] \in index,
         b \notin BadPow \cup BadBody
  PROVE  /\ index' \subseteq Block /\ tips' \subseteq Block
         /\ b \in index' /\ index \subseteq index'
         /\ \A x \in index' \ {Genesis} : Prev[x] \in index'
         /\ \A x \in index' \ {Genesis} : x \notin BadPow \cup BadBody
  BY DEF IInv, TypeOK, ChainOnDisk, Screened, SaveEntry

LEMMA SaveAlternateKeeps ==
  ASSUME IInv, SaveAlternate PROVE IInv'
<1> DEFINE b == job.entry
<1>1. /\ job \in Job /\ b \in Block \ {Genesis} /\ job.body \in Body
      /\ job.phase = "connect"
      /\ b \notin BadPow \cup BadBody /\ Prev[b] \in index
  BY DEF IInv, TypeOK, JobSound, Job, SaveAlternate
<1>2. UNCHANGED <<coins, undo, meta, heights, tip, orphans>>
  BY DEF SaveAlternate
<1>3. CASE /\ SaveEntry(b)
           /\ job' = Goto(job, "resolve")
           /\ UNCHANGED invalid
  <2>1. /\ index' \subseteq Block /\ tips' \subseteq Block
        /\ b \in index' /\ index \subseteq index'
        /\ \A x \in index' \ {Genesis} : Prev[x] \in index'
        /\ \A x \in index' \ {Genesis} : x \notin BadPow \cup BadBody
    BY <1>1, <1>3, SaveEntryKeeps
  <2>2. job' \in Job /\ job'.phase = "resolve" /\ job'.entry = b
    BY <1>1, <1>3, GotoType DEF Phase
  <2>3. TypeOK'
    BY <1>2, <1>3, <2>1, <2>2 DEF IInv, TypeOK
  <2>4. ChainOnDisk' /\ CoinsReplayTip' /\ MainIsGood' /\ UndoSound'
    BY <1>2, <2>1 DEF IInv, ChainOnDisk, CoinsReplayTip, MainIsGood, UndoSound
  <2>5. InvalidSound' /\ Screened'
    BY <1>2, <1>3, <2>1 DEF IInv, InvalidSound, Screened
  <2>6. JobSound'
    BY <1>1, <2>1, <2>2 DEF JobSound, Moving
  <2> QED
    BY <2>3, <2>4, <2>5, <2>6 DEF IInv
<1>4. CASE /\ ~Verify(b, job.body)
           /\ invalid' = invalid \cup Blamed(b, job.body)
           /\ job' = Idle
           /\ UNCHANGED <<index, tips>>
  <2>1. Blamed(b, job.body) \subseteq Block /\ \A x \in Blamed(b, job.body) : ~Good(x)
    BY <1>1, <1>4, BlamedIsBad
  <2>2. TypeOK'
    BY <1>2, <1>4, <2>1, IdleType DEF IInv, TypeOK
  <2>3. InvalidSound' /\ Screened'
    BY <1>2, <1>4, <2>1 DEF IInv, InvalidSound, Screened
  <2>4. JobSound'
    BY <1>4, IdleType DEF JobSound, Moving
  <2> QED
    BY <1>2, <1>4, <2>2, <2>3, <2>4, QuietKeeps DEF IInv
<1> QED
  BY <1>3, <1>4 DEF SaveAlternate

\* Where find_fork stops is below the tip and below the parent of the block.
LEMMA ForkBelow ==
  ASSUME IInv, NEW b \in Block \ {Genesis}, Work[b] > Work[tip], NEW f \in Forks(b)
  PROVE  f \in Block /\ IsAncestor(f, tip) /\ IsAncestor(f, Prev[b])
<1>1. tip \in Block /\ heights = Path[tip]
  BY DEF IInv, TypeOK, ChainOnDisk
<1>2. f \in Block /\ f \in Range(Path[b]) /\ IsMain(f)
  BY DEF Forks
<1>3. IsAncestor(f, tip)
  BY <1>1, <1>2 DEF IsMain, IsAncestor
<1>4. IsAncestor(f, b)
  <2>1. PICK i \in DOMAIN Path[b] : f = Path[b][i]
    BY <1>2 DEF Range
  <2>2. i \in 1 .. Height[b] + 1 /\ Height[b] \in Nat /\ Len(Path[b]) = Height[b] + 1
    BY PathShape, TreeAssumption
  <2>3. Height[f] = i - 1
    BY <2>1, <2>2, PathPrefix
  <2>4. Height[f] + 1 = i /\ Height[f] < Len(Path[b])
    BY <2>2, <2>3
  <2> QED
    BY <2>1, <2>4 DEF IsAncestor
<1>5. f # b
  <2>1. /\ Height[f] + 1 \in 1 .. Height[tip] + 1 /\ Path[tip][Height[f] + 1] = f
    BY <1>1, <1>2, <1>3, PathShape, TreeAssumption DEF IsAncestor
  <2>2. Work[f] <= Work[tip]
    BY <1>1, <2>1, WorkOnPath
  <2> QED
    BY <1>1, <1>2, <2>2, WorkAssumption
<1> QED
  BY <1>2, <1>3, <1>4, <1>5, AncestorChild

LEMMA SetBestChainKeeps ==
  ASSUME IInv, SetBestChain PROVE IInv'
<1> DEFINE b == job.entry
<1>1. /\ job \in Job /\ b \in Block \ {Genesis} /\ job.phase = "connect"
      /\ b \notin BadPow \cup BadBody /\ Prev[b] \in index
      /\ Work[b] > Work[tip]
      /\ tip \in Block /\ tip \in index /\ Good(tip)
  <2>1. tip \in Range(heights)
    BY PathShape, TreeAssumption DEF IInv, TypeOK, ChainOnDisk, Range
  <2> QED
    BY Zenon, <2>1 DEF IInv, TypeOK, ChainOnDisk, MainIsGood, JobSound, Job, SetBestChain
<1>2. UNCHANGED <<index, tips, coins, undo, meta, heights, tip, invalid, orphans>>
  BY Zenon DEF SetBestChain
<1>3. job' \in Job /\ JobSound'
  <2>1. CASE /\ Prev[b] = tip
             /\ job' = [job EXCEPT !.phase = "final", !.old = tip, !.fork = tip, !.target = tip]
    <3>1. /\ job' \in Job /\ job'.phase = "final" /\ job'.entry = b
          /\ job'.old = tip /\ job'.fork = tip /\ job'.target = tip
          /\ job'.restoring = job.restoring
      BY Zenon, <1>1, <2>1 DEF Job, Phase
    <3>2. ~job.restoring
      BY <1>1 DEF IInv, JobSound
    <3> QED
      BY <1>1, <1>2, <2>1, <3>1, <3>2, AncestorSelf DEF JobSound, Moving
  <2>2. ASSUME NEW f \in Forks(b), Prev[b] # tip,
               NEW j, j = [job EXCEPT !.old = tip, !.fork = f, !.target = Prev[b]],
               job' = Goto(j, Descend(j, tip))
        PROVE  job' \in Job /\ JobSound'
    <3>0. job' = Goto(j, Descend(j, tip))
      BY <2>2
    <3>1. f \in Block /\ IsAncestor(f, tip) /\ IsAncestor(f, Prev[b])
      BY <1>1, ForkBelow
    <3>2. /\ j \in Job /\ j.entry = b /\ j.old = tip /\ j.fork = f
          /\ j.target = Prev[b] /\ ~j.restoring
      BY Zenon, <1>1, <2>2, <3>1, TreeAssumption DEF IInv, JobSound, Job
    <3>3. CASE tip # f
      <4>1. Descend(j, tip) = "disconnect"
        BY <3>2, <3>3 DEF Descend
      <4>2. /\ job' \in Job /\ job'.phase = "disconnect" /\ job'.entry = b
            /\ job'.old = tip /\ job'.fork = f /\ job'.target = Prev[b]
            /\ ~job'.restoring
        BY <3>0, <3>2, <4>1, GotoType DEF Phase
      <4> QED
        BY <1>1, <1>2, <3>1, <3>3, <4>2 DEF JobSound, Moving
    <3>4. CASE tip = f
      <4>1. Descend(j, tip) = "reconnect"
        BY <2>2, <3>2, <3>4 DEF Descend, Climb
      <4>2. /\ job' \in Job /\ job'.phase = "reconnect" /\ job'.entry = b
            /\ job'.old = tip /\ job'.fork = f /\ job'.target = Prev[b]
            /\ ~job'.restoring
        BY <3>0, <3>2, <4>1, GotoType DEF Phase
      <4> QED
        BY <1>1, <1>2, <2>2, <3>1, <3>4, <4>2 DEF JobSound, Moving
    <3> QED
      BY <3>3, <3>4
  <2> QED
    BY Zenon, <2>1, <2>2 DEF SetBestChain
<1>4. TypeOK' /\ InvalidSound' /\ Screened'
  BY <1>2, <1>3 DEF IInv, TypeOK, InvalidSound, Screened
<1> QED
  BY <1>2, <1>3, <1>4, QuietKeeps DEF IInv

\* The undo record of a block on the main chain is what it consumed.
LEMMA MainUndo ==
  ASSUME IInv, tip # Genesis
  PROVE  ReadUndo(tip) = UndoOf(Replay[Prev[tip]], tip)
<1>1. /\ tip \in Block \ {Genesis} /\ Height[tip] + 1 \in DOMAIN heights
      /\ heights[Height[tip] + 1] = tip
  BY PathShape, TreeAssumption DEF IInv, TypeOK, ChainOnDisk
<1>2. CASE undo[tip] # NoUndo
  BY <1>1, <1>2 DEF IInv, UndoSound, ReadUndo
<1>3. CASE undo[tip] = NoUndo
  <2>1. Spent[tip] = {}
    BY <1>1, <1>3 DEF IInv, UndoSound
  <2> QED
    BY <1>3, <2>1 DEF ReadUndo, UndoOf, NoCoins
<1> QED
  BY <1>2, <1>3

\* The disconnect loop never reaches below the fork.
LEMMA AboveFork ==
  ASSUME IInv, job.phase = "disconnect"
  PROVE  /\ tip \in Block \ {Genesis} /\ Prev[tip] \in Block
         /\ IsAncestor(job.fork, Prev[tip])
<1>1. job.fork \in Block /\ tip \in Block /\ tip # job.fork /\ IsAncestor(job.fork, tip)
  BY DEF IInv, TypeOK, JobSound, Job, Moving
<1>2. tip # Genesis
  BY <1>1, AncestorGenesis
<1> QED
  BY <1>1, <1>2, AncestorChild, TreeAssumption

LEMMA DisconnectKeeps ==
  ASSUME IInv, Disconnect PROVE IInv'
<1> DEFINE p == Prev[tip]
<1>1. /\ job.phase = "disconnect" /\ meta' = p /\ tip' = p /\ heights' = Front(heights)
      /\ coins' = DisconnectCoins(coins, tip, ReadUndo(tip))
      /\ job' = Goto(job, Descend(job, p))
      /\ UNCHANGED <<index, tips, undo, invalid, orphans>>
  BY DEF Disconnect
<1>2. /\ tip \in Block \ {Genesis} /\ p \in Block /\ IsAncestor(job.fork, p)
  BY <1>1, AboveFork
<1>3. /\ heights = Path[tip] /\ coins = Replay[tip] /\ Good(tip) /\ tip \in index
      /\ index \subseteq Block
      /\ \A a \in index \ {Genesis} : Prev[a] \in index
  <2>1. tip \in Range(heights)
    BY PathShape, TreeAssumption DEF IInv, TypeOK, ChainOnDisk, Range
  <2> QED
    BY <2>1 DEF IInv, TypeOK, ChainOnDisk, CoinsReplayTip, MainIsGood
<1>4. /\ job \in Job /\ job.entry \in Block /\ job.old \in Block /\ job.fork \in Block
      /\ job.target \in Block /\ job.restoring \in BOOLEAN
  BY DEF IInv, TypeOK, Job
<1>5. Good(p) /\ ValidOn(Replay[p], tip)
  BY <1>2, <1>3, GoodChild
<1>6. coins' = Replay[p]
  BY <1>1, <1>2, <1>3, <1>5, MainUndo, DisconnectInverts DEF ValidOn
<1>7. heights' = Path[p]
  BY <1>1, <1>2, <1>3, PathOfChild DEF Front
<1>8. ChainOnDisk'
  <2>1. p \in index
    BY <1>2, <1>3
  <2>2. Range(Path[p]) \subseteq index
    BY <1>3, <2>1, RangeIndexed
  <2> QED
    BY <1>1, <1>3, <1>7, <2>2 DEF ChainOnDisk
<1>9. UndoSound'
  <2>1. /\ Len(Path[p]) = Height[tip] /\ Len(Path[tip]) = Height[tip] + 1
        /\ Height[tip] \in Nat
        /\ Path[p] \in Seq(Block) /\ Path[tip] \in Seq(Block)
        /\ \A i \in 1 .. Height[tip] : Path[tip][i] = Path[p][i]
    BY <1>2, ChildShape
  <2>2. ASSUME NEW i \in DOMAIN heights', Spent[heights'[i]] # {}
        PROVE  undo[heights'[i]] # NoUndo
    <3>1. i \in 1 .. Height[tip] /\ heights'[i] = Path[p][i]
      BY <1>7, <2>1
    <3>2. i \in DOMAIN heights /\ heights[i] = heights'[i]
      BY <1>3, <2>1, <3>1
    <3> QED
      BY <2>2, <3>2 DEF IInv, UndoSound
  <2> QED
    BY <1>1, <2>2 DEF IInv, UndoSound
<1>10. job' \in Job /\ JobSound'
  <2> DEFINE ph == Descend(job, p)
  <2>1. ph \in {"disconnect", "reconnect", "final", "idle"}
    BY DEF Descend, Climb
  <2>2. /\ ph = "disconnect" => p # job.fork
        /\ ph = "reconnect" => p = job.fork /\ p # job.target
        /\ ph = "final" => p = job.target /\ ~job.restoring
    BY DEF Descend, Climb
  <2> HIDE DEF ph
  <2>3. /\ job' \in Job /\ job'.phase = ph
        /\ ph = "idle" => job' = Idle
        /\ ph # "idle" => /\ job'.entry = job.entry /\ job'.old = job.old
                          /\ job'.fork = job.fork /\ job'.target = job.target
                          /\ job'.restoring = job.restoring
    <3>1. ph \in Phase /\ job' = Goto(job, ph)
      BY <1>1, <2>1 DEF Phase, ph
    <3> QED
      BY <1>4, <3>1, GotoType
  <2>4. CASE ph = "idle"
    BY <2>3, <2>4 DEF JobSound, Moving
  <2>5. CASE ph # "idle"
    BY Zenon, <1>1, <1>2, <2>1, <2>2, <2>3, <2>5 DEF IInv, JobSound, Moving
  <2> QED
    BY <2>3, <2>4, <2>5
<1>11. TypeOK'
  <2>1. Path[p] \in Seq(Block) /\ Replay[p] \in Coins
    BY <1>2, PathAssumption, ReplayAssumption
  <2> QED
    BY Zenon, <1>1, <1>2, <1>6, <1>7, <1>10, <2>1 DEF IInv, TypeOK
<1>12. CoinsReplayTip' /\ MainIsGood' /\ InvalidSound' /\ Screened'
  BY <1>1, <1>5, <1>6 DEF IInv, CoinsReplayTip, MainIsGood, InvalidSound, Screened
<1> QED
  BY <1>8, <1>9, <1>10, <1>11, <1>12 DEF IInv

\* The error exits of set_best_chain leave a call that can be completed.
LEMMA GiveUpSound ==
  ASSUME IInv, job.phase \in {"reconnect", "final"}, job' = GiveUp(job),
         UNCHANGED <<index, tip>>
  PROVE  job' \in Job /\ JobSound'
<1>1. /\ job \in Job /\ job.entry \in Block /\ job.old \in Block /\ job.fork \in Block
      /\ tip \in Block
  BY DEF IInv, TypeOK, Job
<1>2. /\ Good(job.old) /\ job.old \in index /\ IsAncestor(job.fork, tip)
      /\ IsAncestor(job.fork, job.old)
      /\ job.entry # Genesis /\ job.entry \notin BadPow \cup BadBody
      /\ Prev[job.entry] \in index
  BY DEF IInv, JobSound, Moving
<1>3. CASE Work[tip] < Work[job.old]
  <2> DEFINE r == [job EXCEPT !.target = job.old, !.restoring = TRUE]
             ph == Descend(r, tip)
  <2>1. /\ r \in Job /\ r.entry = job.entry /\ r.old = job.old /\ r.fork = job.fork
        /\ r.target = job.old /\ r.restoring
    BY Zenon, <1>1 DEF Job
  <2>2. job' = Goto(r, ph)
    BY <1>3 DEF GiveUp
  <2> HIDE DEF r
  <2>3. tip # job.old
    BY <1>1, <1>3, WorkAssumption
  <2>4. \/ ph = "disconnect" /\ tip # job.fork
        \/ ph = "reconnect" /\ tip = job.fork
    BY <2>1, <2>3 DEF Descend, Climb
  <2> HIDE DEF ph
  <2>5. /\ job' \in Job /\ job'.phase = ph /\ job'.entry = job.entry
        /\ job'.old = job.old /\ job'.fork = job.fork /\ job'.target = job.old
        /\ job'.restoring
    BY <2>1, <2>2, <2>4, GotoType DEF Phase
  <2>6. ph \in Moving /\ ph \notin {"idle", "connect", "resolve", "final"}
    BY <2>4 DEF Moving
  <2> QED
    BY <1>2, <2>3, <2>4, <2>5, <2>6 DEF JobSound
<1>4. CASE ~(Work[tip] < Work[job.old])
  <2>1. job' = Idle
    BY <1>4 DEF GiveUp
  <2> QED
    BY <2>1, IdleType DEF JobSound, Moving
<1> QED
  BY <1>3, <1>4

\* The next block of the connect loop: an indexed child of the tip.
LEMMA StepFacts ==
  ASSUME IInv, job.phase = "reconnect"
  PROVE  /\ Step \in Block \ {Genesis} /\ Prev[Step] = tip
         /\ Height[Step] = Height[tip] + 1
         /\ IsAncestor(Step, job.target)
         /\ Step \in index /\ Step \notin BadPow \cup BadBody
         /\ job.target \in Block /\ job.target \in index
<1>1. /\ tip \in Block /\ job.target \in Block /\ job.target \in index
      /\ tip # job.target /\ IsAncestor(tip, job.target)
  BY DEF IInv, TypeOK, JobSound, Job, Moving
<1>2. /\ Step \in Block \ {Genesis} /\ Prev[Step] = tip
      /\ Height[Step] = Height[tip] + 1
      /\ IsAncestor(Step, job.target)
      /\ Height[tip] + 2 \in 1 .. Height[job.target] + 1
  BY <1>1, StepUp DEF Step
<1>3. /\ index \subseteq Block /\ \A a \in index \ {Genesis} : Prev[a] \in index
  BY DEF IInv, TypeOK, ChainOnDisk
<1>4. Step \in index
  BY <1>1, <1>2, <1>3, PathIndexed DEF Step
<1> QED
  BY <1>1, <1>2, <1>4 DEF IInv, Screened

LEMMA ReconnectKeeps ==
  ASSUME IInv, Reconnect PROVE IInv'
<1> DEFINE c == Step
<1>1. /\ job.phase = "reconnect" /\ VerifyContext(c, "genuine") /\ ConnectBlock(c)
      /\ job' = Goto(job, Climb(job, c))
      /\ UNCHANGED <<index, tips, invalid, orphans>>
  BY DEF Reconnect
<1>2. /\ c \in Block \ {Genesis} /\ Prev[c] = tip /\ IsAncestor(c, job.target)
      /\ c \in index /\ c \notin BadPow \cup BadBody
  BY <1>1, StepFacts
<1> HIDE DEF c
<1>3. ValidOn(coins, c)
  BY <1>1, <1>2 DEF VerifyContext, Verify, ValidOn
<1>4. /\ coins' \in Coins /\ undo' \in [Block -> Undo] /\ meta' \in Block
      /\ heights' \in Seq(Block) /\ tip' \in Block
      /\ tip' = c /\ meta' = c /\ heights' = Path[c]
      /\ coins' = Replay[c]
      /\ Good(c)
      /\ UndoSound'
  BY <1>1, <1>2, <1>3, ConnectBlockKeeps
<1>5. job' \in Job /\ JobSound'
  <2> DEFINE ph == Climb(job, c)
  <2>1. /\ ph \in {"reconnect", "final", "idle"}
        /\ ph = "reconnect" => c # job.target
        /\ ph = "final" => c = job.target /\ ~job.restoring
    BY DEF Climb
  <2> HIDE DEF ph
  <2>2. /\ job \in Job /\ job.fork \in Block
    BY DEF IInv, TypeOK, Job
  <2>3. /\ job' \in Job /\ job'.phase = ph
        /\ ph = "idle" => job' = Idle
        /\ ph # "idle" => /\ job'.entry = job.entry /\ job'.old = job.old
                          /\ job'.fork = job.fork /\ job'.target = job.target
                          /\ job'.restoring = job.restoring
    <3>1. ph \in Phase /\ job' = Goto(job, ph)
      BY <1>1, <2>1 DEF Phase, ph
    <3> QED
      BY <2>2, <3>1, GotoType
  <2>4. IsAncestor(job.fork, tip) /\ IsAncestor(job.fork, c)
    BY <1>1, <1>2, <2>2, AncestorChild DEF IInv, JobSound, Moving
  <2>5. CASE ph = "idle"
    BY <2>3, <2>5 DEF JobSound, Moving
  <2>6. CASE ph # "idle"
    BY Zenon, <1>1, <1>2, <1>4, <2>1, <2>3, <2>4, <2>6 DEF IInv, JobSound, Moving
  <2> QED
    BY <2>3, <2>5, <2>6
<1>6. TypeOK'
  BY Zenon, <1>1, <1>4, <1>5 DEF IInv, TypeOK
<1>7. ChainOnDisk'
  <2>1. index \subseteq Block /\ \A a \in index \ {Genesis} : Prev[a] \in index
    BY DEF IInv, TypeOK, ChainOnDisk
  <2>2. Range(Path[c]) \subseteq index
    BY <1>2, <2>1, RangeIndexed
  <2> QED
    BY <1>1, <1>4, <2>1, <2>2 DEF ChainOnDisk
<1>8. CoinsReplayTip' /\ MainIsGood' /\ InvalidSound' /\ Screened'
  BY <1>1, <1>4 DEF IInv, CoinsReplayTip, MainIsGood, InvalidSound, Screened
<1> QED
  BY <1>4, <1>5, <1>6, <1>7, <1>8 DEF IInv

LEMMA ReconnectFailsKeeps ==
  ASSUME IInv, ReconnectFails PROVE IInv'
<1> DEFINE c == Step
           g == job.target
           bad == {Path[g][i] : i \in Height[c] + 1 .. Len(Path[g])}
<1>1. /\ job.phase = "reconnect" /\ ~VerifyContext(c, "genuine")
      /\ invalid' = invalid \cup bad
      /\ job' = GiveUp(job)
      /\ UNCHANGED <<index, tips, coins, undo, meta, heights, tip, orphans>>
  BY DEF ReconnectFails
<1>2. /\ c \in Block \ {Genesis} /\ Prev[c] = tip /\ IsAncestor(c, g) /\ g \in Block
  BY <1>1, StepFacts
<1> HIDE DEF c, g, bad
<1>3. ~ValidOn(Replay[Prev[c]], c)
  BY <1>1, <1>2 DEF VerifyContext, Verify, ValidOn, IInv, CoinsReplayTip, ChainOnDisk
<1>4. ASSUME NEW i \in Height[c] + 1 .. Len(Path[g])
      PROVE  Path[g][i] \in Block /\ ~Good(Path[g][i])
  <2> DEFINE x == Path[g][i]
             k == Height[c] + 1
  <2>1. /\ Height[c] \in Nat /\ Height[g] \in Nat /\ Len(Path[g]) = Height[g] + 1
        /\ Path[g][k] = c
    BY <1>2, PathShape, TreeAssumption DEF IsAncestor
  <2>2. i \in 1 .. Height[g] + 1 /\ k \in 1 .. i
    BY <2>1
  <2>3. /\ x \in Block /\ Height[x] = i - 1
        /\ \A j \in 1 .. i : Path[x][j] = Path[g][j]
    BY <1>2, <2>2, PathPrefix
  <2>4. Path[x][k] = c
    BY <2>1, <2>2, <2>3
  <2>5. k \in 1 .. Height[x] + 1 /\ k > 1
    <3>1. Height[c] # 0
      BY <1>2, TreeAssumption
    <3> QED
      BY <2>1, <2>2, <2>3, <3>1
  <2> HIDE DEF x, k
  <2>6. ~Good(x)
    BY Zenon, <1>3, <2>3, <2>4, <2>5, GoodPath
  <2> QED
    BY <2>3, <2>6 DEF x
<1>5. bad \subseteq Block /\ \A x \in bad : ~Good(x)
  BY <1>4 DEF bad
<1>6. job' \in Job /\ JobSound'
  BY <1>1, GiveUpSound
<1>7. TypeOK' /\ InvalidSound' /\ Screened'
  BY <1>1, <1>5, <1>6 DEF IInv, TypeOK, InvalidSound, Screened
<1> QED
  BY <1>1, <1>6, <1>7, QuietKeeps DEF IInv

LEMMA ConnectTipKeeps ==
  ASSUME IInv, ConnectTip PROVE IInv'
<1> DEFINE b == job.entry
<1>1. /\ job.phase = "final" /\ VerifyContext(b, job.body) /\ ConnectBlock(b)
      /\ SaveEntry(b) /\ job' = Goto(job, "resolve")
      /\ UNCHANGED <<invalid, orphans>>
  BY DEF ConnectTip
<1>2. /\ job \in Job /\ b \in Block \ {Genesis} /\ Prev[b] = tip
      /\ Prev[b] \in index /\ b \notin BadPow \cup BadBody
  BY Zenon, <1>1 DEF IInv, TypeOK, Job, JobSound
<1>3. ValidOn(coins, b)
  BY <1>1, <1>2 DEF VerifyContext, Verify, ValidOn
<1>4. /\ coins' \in Coins /\ undo' \in [Block -> Undo] /\ meta' \in Block
      /\ heights' \in Seq(Block) /\ tip' \in Block
      /\ tip' = b /\ meta' = b /\ heights' = Path[b]
      /\ coins' = Replay[b]
      /\ Good(b)
      /\ UndoSound'
  BY <1>1, <1>2, <1>3, ConnectBlockKeeps
<1>5. /\ index' \subseteq Block /\ tips' \subseteq Block
      /\ b \in index' /\ index \subseteq index'
      /\ \A x \in index' \ {Genesis} : Prev[x] \in index'
      /\ \A x \in index' \ {Genesis} : x \notin BadPow \cup BadBody
  BY <1>1, <1>2, SaveEntryKeeps
<1>6. job' \in Job /\ job'.phase = "resolve" /\ job'.entry = b
  BY <1>1, <1>2, GotoType DEF Phase
<1>7. JobSound'
  BY <1>2, <1>5, <1>6 DEF JobSound, Moving
<1>8. TypeOK'
  BY <1>1, <1>4, <1>5, <1>6 DEF IInv, TypeOK
<1>9. ChainOnDisk'
  <2>1. Range(Path[b]) \subseteq index'
    BY <1>5, RangeIndexed
  <2> QED
    BY <1>4, <1>5, <2>1 DEF ChainOnDisk
<1>10. CoinsReplayTip' /\ MainIsGood' /\ InvalidSound' /\ Screened'
  BY <1>1, <1>4, <1>5 DEF IInv, CoinsReplayTip, MainIsGood, InvalidSound, Screened
<1> QED
  BY <1>4, <1>7, <1>8, <1>9, <1>10 DEF IInv

LEMMA ConnectTipFailsKeeps ==
  ASSUME IInv, ConnectTipFails PROVE IInv'
<1> DEFINE b == job.entry
<1>1. /\ job.phase = "final" /\ ~VerifyContext(b, job.body)
      /\ invalid' = invalid \cup Blamed(b, job.body)
      /\ job' = GiveUp(job)
      /\ UNCHANGED <<index, tips, coins, undo, meta, heights, tip, orphans>>
  BY DEF ConnectTipFails
<1>2. /\ b \in Block \ {Genesis} /\ job.body \in Body /\ Prev[b] = tip
      /\ coins = Replay[tip]
  BY Zenon, <1>1 DEF IInv, TypeOK, Job, JobSound, CoinsReplayTip, ChainOnDisk
<1>3. Blamed(b, job.body) \subseteq Block /\ \A x \in Blamed(b, job.body) : ~Good(x)
  BY <1>1, <1>2, BlamedIsBad DEF VerifyContext
<1>4. job' \in Job /\ JobSound'
  BY <1>1, GiveUpSound
<1>5. TypeOK' /\ InvalidSound' /\ Screened'
  BY <1>1, <1>3, <1>4 DEF IInv, TypeOK, InvalidSound, Screened
<1> QED
  BY <1>1, <1>4, <1>5, QuietKeeps DEF IInv

LEMMA HandleOrphansKeeps ==
  ASSUME IInv, HandleOrphans PROVE IInv'
<1>1. /\ job.phase = "resolve" /\ job.entry \in index
      /\ UNCHANGED <<index, tips, coins, undo, meta, heights, tip, invalid>>
  BY DEF HandleOrphans, IInv, JobSound
<1>2. orphans \in Seq(Orphan) /\ Len(orphans) <= MaxOrphans
  BY DEF IInv, TypeOK
<1>3. ASSUME NEW i \in NextOrphan(job.entry),
             job' = Connecting(orphans[i].hash, orphans[i].body),
             orphans' = RemoveAt(orphans, i)
      PROVE  IInv'
  <2> DEFINE o == orphans[i]
  <2>1. i \in DOMAIN orphans /\ Prev[o.hash] = job.entry
    BY DEF NextOrphan
  <2>2. o \in Orphan /\ o.hash \in Block /\ o.body \in Body
    <3>1. o \in Orphan
      BY <1>2, <2>1
    <3> QED
      BY <3>1 DEF Orphan
  <2>3. o.hash # Genesis /\ o.hash \notin BadPow \cup BadBody
    BY <2>1 DEF IInv, Screened
  <2>4. /\ job' \in Job /\ job'.phase = "connect" /\ job'.entry = o.hash
        /\ ~job'.restoring
    BY <1>3, <2>2, ConnectingType
  <2>5. /\ orphans' \in Seq(Orphan) /\ Len(orphans') = Len(orphans) - 1
        /\ \A k \in DOMAIN orphans' : \E j \in DOMAIN orphans : orphans'[k] = orphans[j]
    BY <1>2, <1>3, <2>1, RemoveKeeps
  <2> HIDE DEF o
  <2>6. JobSound'
    BY <1>1, <2>1, <2>3, <2>4 DEF JobSound, Moving
  <2>7. Screened'
    BY <1>1, <2>5 DEF IInv, Screened
  <2>8. TypeOK' /\ InvalidSound'
    <3>1. Len(orphans') <= MaxOrphans
      BY <1>2, <2>5, OrphanAssumption
    <3> QED
      BY <1>1, <2>4, <2>5, <3>1 DEF IInv, TypeOK, InvalidSound
  <2> QED
    BY <1>1, <2>6, <2>7, <2>8, QuietKeeps DEF IInv
<1>4. ASSUME job' = Idle, UNCHANGED orphans PROVE IInv'
  <2>1. TypeOK' /\ InvalidSound' /\ Screened'
    BY <1>1, <1>4, IdleType DEF IInv, TypeOK, InvalidSound, Screened
  <2>2. JobSound'
    BY <1>4, IdleType DEF JobSound, Moving
  <2> QED
    BY <1>1, <2>1, <2>2, QuietKeeps DEF IInv
<1> QED
  BY <1>3, <1>4 DEF HandleOrphans

LEMMA CrashKeeps ==
  ASSUME IInv, Crash PROVE IInv'
<1>1. /\ heights' = Path[meta] /\ tip' = meta /\ invalid' = {} /\ orphans' = << >>
      /\ job' = Idle
      /\ UNCHANGED <<index, tips, coins, undo, meta>>
  BY DEF Crash, disk
<1>2. heights' = heights /\ tip' = tip
  BY <1>1 DEF IInv, ChainOnDisk
<1>3. TypeOK' /\ InvalidSound' /\ Screened'
  BY <1>1, <1>2, IdleType, OrphanAssumption DEF IInv, TypeOK, InvalidSound, Screened
<1>4. JobSound'
  BY <1>1, IdleType DEF JobSound, Moving
<1> QED
  BY <1>1, <1>2, <1>3, <1>4, QuietKeeps DEF IInv

-----------------------------------------------------------------------------
LEMMA NextIInv == IInv /\ [Next]_vars => IInv'
<1> SUFFICES ASSUME IInv, [Next]_vars PROVE IInv'
  OBVIOUS
<1>1. ASSUME NEW b \in Block, NEW body \in Body, Receive(b, body), ~UNCHANGED vars
      PROVE  IInv'
  BY <1>1, AddInvalidChildKeeps, AddInsaneKeeps, StoreOrphanKeeps, AddBlockKeeps
  DEF Receive, AddIgnored
<1>2. CASE Proceed
  BY <1>2, SaveAlternateKeeps, SetBestChainKeeps, DisconnectKeeps, ReconnectKeeps,
     ReconnectFailsKeeps, ConnectTipKeeps, ConnectTipFailsKeeps, HandleOrphansKeeps
  DEF Proceed
<1>3. CASE Crash
  BY <1>3, CrashKeeps
<1>4. CASE UNCHANGED vars
  <2>1. UNCHANGED <<index, coins, undo, meta, heights, tip>>
    BY <1>4 DEF vars
  <2>2. TypeOK' /\ InvalidSound' /\ JobSound' /\ Screened'
    BY Zenon, <1>4 DEF vars, IInv, TypeOK, InvalidSound, JobSound, Screened
  <2> QED
    BY <2>1, <2>2, QuietKeeps DEF IInv
<1> QED
  BY <1>1, <1>2, <1>3, <1>4 DEF Next

\* The inductive invariant holds in every reachable state.
THEOREM Invariance == Spec => []IInv
  BY InitIInv, NextIInv, PTL DEF Spec

\* Every variable of the chain and its database keeps its type.
THEOREM TypeCorrect == Spec => []TypeOK
<1>1. IInv => TypeOK
  BY DEF IInv
<1> QED
  BY <1>1, Invariance, PTL

\* For every block tree and every order of arrivals, forks, failures and
\* crashes: the coins on disk are a replay of the chain that ends in the tip.
THEOREM CoinsCorrect == Spec => []CoinsReplayTip
<1>1. IInv => CoinsReplayTip
  BY DEF IInv
<1> QED
  BY <1>1, Invariance, PTL

\* Only blocks that are valid in their place are ever on the main chain.
THEOREM MainCorrect == Spec => []MainIsGood
<1>1. IInv => MainIsGood
  BY DEF IInv
<1> QED
  BY <1>1, Invariance, PTL

\* Every undo record is the one its block needs.
THEOREM UndoCorrect == Spec => []UndoSound
<1>1. IInv => UndoSound
  BY DEF IInv
<1> QED
  BY <1>1, Invariance, PTL

\* No valid block is ever remembered as invalid.
THEOREM InvalidCorrect == Spec => []InvalidSound
<1>1. IInv => InvalidSound
  BY DEF IInv
<1> QED
  BY <1>1, Invariance, PTL

\* The inductive invariant implies that no CHECK of a reorganization fails.
LEMMA IInvNoAbort == IInv => NoAbort
<1> SUFFICES ASSUME IInv PROVE NoAbort
  OBVIOUS
<1>1. /\ tip \in Block /\ heights = Path[tip] /\ coins = Replay[tip] /\ Good(tip)
      /\ Len(heights) = Height[tip] + 1 /\ heights[Height[tip] + 1] = tip
  BY PathShape DEF IInv, TypeOK, ChainOnDisk, CoinsReplayTip, MainIsGood
<1>2. ASSUME job.phase = "disconnect"
      PROVE  /\ tip # Genesis /\ Last(heights) = tip
             /\ \A o \in Spent[tip] : ReadUndo(tip)[o] # None
  <2>1. tip \in Block \ {Genesis}
    BY <1>2, AboveFork
  <2>2. ValidOn(Replay[Prev[tip]], tip)
    BY <1>1, <2>1, GoodChild
  <2>3. ASSUME NEW o \in Spent[tip] PROVE ReadUndo(tip)[o] # None
    <3>1. o \in Outpoint
      BY <1>1, EffectAssumption
    <3>2. Replay[Prev[tip]][o] # None
      BY <2>2 DEF ValidOn, VerifyInputs
    <3>3. ReadUndo(tip) = UndoOf(Replay[Prev[tip]], tip)
      BY <2>1, MainUndo
    <3> QED
      BY <3>1, <3>2, <3>3 DEF UndoOf
  <2> QED
    BY <1>1, <2>1, <2>3 DEF Last
<1>3. ASSUME job.phase = "reconnect" PROVE Len(heights) = Height[Step]
  BY <1>1, <1>3, StepFacts
<1>4. ASSUME job.phase = "final" PROVE Len(heights) = Height[job.entry]
  <2>1. job.entry \in Block \ {Genesis} /\ Prev[job.entry] = tip
    BY <1>4 DEF IInv, TypeOK, Job, JobSound
  <2> QED
    BY <1>1, <2>1, PathOfChild
<1>5. ASSUME job.phase = "reconnect", job.restoring
      PROVE  VerifyContext(Step, "genuine")
  <2> DEFINE g == job.target
             k == Height[Step] + 1
  <2>1. /\ Good(g) /\ g \in Block
    BY <1>5 DEF IInv, TypeOK, Job, JobSound, Moving
  <2>2. /\ Step \in Block \ {Genesis} /\ Prev[Step] = tip /\ IsAncestor(Step, g)
    BY <1>5, StepFacts
  <2>3. /\ Height[Step] \in Nat /\ Height[Step] # 0 /\ Len(Path[g]) = Height[g] + 1
        /\ Height[g] \in Nat
    BY <2>1, <2>2, PathShape, TreeAssumption
  <2>4. k \in 1 .. Height[g] + 1 /\ k > 1 /\ Path[g][k] = Step
    BY <2>2, <2>3 DEF IsAncestor
  <2> HIDE DEF g, k
  <2>5. ValidOn(Replay[Prev[Step]], Step)
    BY <2>1, <2>4, GoodPath
  <2> QED
    BY <1>1, <2>2, <2>5 DEF ValidOn, VerifyContext, Verify
<1> QED
  BY <1>2, <1>3, <1>4, <1>5 DEF NoAbort

\* No CHECK of a reorganization fails; going back to the old chain after a
\* failed one always succeeds.
THEOREM ReorganizationNeverAborts == Spec => []NoAbort
  BY IInvNoAbort, Invariance, PTL

\* In memory and on disk the node has one and the same chain, with all of its
\* blocks indexed, at every step of a reorganization and after a crash.
THEOREM ChainOnDiskCorrect == Spec => []ChainOnDisk
<1>1. IInv => ChainOnDisk
  BY DEF IInv
<1> QED
  BY <1>1, Invariance, PTL

\* set_best_chain only starts for a block with more work than the tip, and
\* remembers both until it returns.
LEMMA HeavierKeeps == IInv /\ Heavier /\ [Next]_vars => Heavier'
<1> SUFFICES ASSUME IInv, Heavier, [Next]_vars, job'.phase \in Moving
             PROVE  Work[job'.entry] > Work[job'.old]
  BY DEF Heavier
<1>1. job \in Job /\ tip \in Block
  BY DEF IInv, TypeOK
<1>2. CASE SetBestChain
  <2>1. Work[job.entry] > Work[tip]
    BY <1>2, Zenon DEF SetBestChain
  <2>2. job'.entry = job.entry /\ job'.old = tip
    <3>1. CASE Prev[job.entry] = tip
      <4>1. job' = [job EXCEPT !.phase = "final", !.old = tip, !.fork = tip, !.target = tip]
        BY <1>2, <3>1, Zenon DEF SetBestChain
      <4> QED
        BY <1>1, <4>1 DEF Job
    <3>2. CASE Prev[job.entry] # tip
      <4>1. PICK f \in Forks(job.entry) :
                LET j == [job EXCEPT !.old = tip, !.fork = f, !.target = Prev[job.entry]]
                IN  job' = Goto(j, Descend(j, tip))
        BY <1>2, <3>2, Zenon DEF SetBestChain
      <4> QED
        BY <1>1, <4>1, IdleType DEF Goto, Job, Moving
    <3> QED
      BY <3>1, <3>2
  <2> QED
    BY <2>1, <2>2
<1>3. CASE job.phase \in Moving /\ job'.entry = job.entry /\ job'.old = job.old
  BY <1>3 DEF Heavier
<1>4. CASE Disconnect \/ Reconnect
  <2>1. job.phase \in Moving
    BY <1>4 DEF Disconnect, Reconnect, Moving
  <2>2. job'.entry = job.entry /\ job'.old = job.old
    BY <1>1, <1>4, IdleType DEF Disconnect, Reconnect, Goto, Moving, Job
  <2> QED
    BY <1>3, <2>1, <2>2
<1>5. CASE ReconnectFails \/ ConnectTipFails
  <2>1. job.phase \in Moving /\ job' = GiveUp(job)
    BY <1>5 DEF ReconnectFails, ConnectTipFails, Moving
  <2>2. job'.entry = job.entry /\ job'.old = job.old
    BY <1>1, <2>1, IdleType DEF GiveUp, Goto, Moving, Job
  <2> QED
    BY <1>3, <2>1, <2>2
<1>6. CASE UNCHANGED vars
  BY <1>6 DEF vars, Heavier
<1>7. CASE \/ \E b \in Block, body \in Body : Receive(b, body)
           \/ SaveAlternate \/ ConnectTip \/ HandleOrphans \/ Crash
  <2>1. \/ UNCHANGED job
        \/ job' = Idle
        \/ job' = Goto(job, "resolve")
        \/ \E b, body : job' = Connecting(b, body)
    BY <1>7, Zenon DEF Receive, AddIgnored, AddInvalidChild, AddInsane, StoreOrphan,
       AddBlock, SaveAlternate, ConnectTip, HandleOrphans, Crash, vars
  <2>2. ASSUME NEW b, NEW body PROVE Connecting(b, body).phase = "connect"
    BY DEF Connecting, Idle
  <2>3. Goto(job, "resolve").phase = "resolve"
    BY <1>1, GotoType DEF Phase
  <2>4. UNCHANGED job \/ job'.phase \notin Moving
    BY <2>1, <2>2, <2>3, IdleType DEF Moving
  <2> QED
    BY <2>4 DEF Heavier
<1> QED
  BY <1>2, <1>4, <1>5, <1>6, <1>7 DEF Next, Proceed

\* Whatever fails on the way, set_best_chain leaves the node on a chain with at
\* least the work of the one it found.
THEOREM WorkNeverLost == Spec => TipKeepsWork
<1>1. Init => Heavier
  BY DEF Init, Heavier, Idle, Moving
<1>2. ASSUME IInv, Heavier, Proceed, job.phase \in Moving, job'.phase \notin Moving
      PROVE  Work[job.old] <= Work[tip']
  <2>1. /\ job \in Job /\ tip \in Block
        /\ job.target = IF job.restoring THEN job.old ELSE Prev[job.entry]
    BY <1>2 DEF IInv, TypeOK, JobSound
  <2>2. /\ Work[job.old] \in Nat /\ Work[job.entry] \in Nat /\ Work[tip] \in Nat
    BY <2>1, WorkAssumption DEF Job
  <2>3. CASE Disconnect
    BY <1>2, <2>1, <2>2, <2>3 DEF Disconnect, Goto, Descend, Climb, Moving, Job
  <2>4. CASE Reconnect
    <3>1. tip' = Step /\ job' = Goto(job, Climb(job, Step))
      BY <2>4 DEF Reconnect, ConnectBlock
    <3> QED
      BY <1>2, <2>1, <2>2, <3>1 DEF Goto, Climb, Moving, Job
  <2>5. CASE ConnectTip
    BY <1>2, <2>2, <2>5 DEF ConnectTip, ConnectBlock, Heavier
  <2>6. CASE ReconnectFails \/ ConnectTipFails
    <3>1. job' = GiveUp(job) /\ tip' = tip
      BY <2>6 DEF ReconnectFails, ConnectTipFails
    <3>2. CASE Work[tip] < Work[job.old]
      <4> DEFINE r == [job EXCEPT !.target = job.old, !.restoring = TRUE]
      <4>1. job' = Goto(r, Descend(r, tip))
        BY <3>1, <3>2, Zenon DEF GiveUp
      <4>2. r \in Job /\ r.target = job.old
        BY Zenon, <2>1 DEF Job
      <4> HIDE DEF r
      <4>3. tip # job.old
        BY <2>2, <3>2
      <4>4. Descend(r, tip) \in {"disconnect", "reconnect"}
        BY <4>2, <4>3 DEF Descend, Climb
      <4>5. job'.phase \in Moving
        BY <4>1, <4>2, <4>4 DEF Goto, Moving, Job
      <4> QED
        BY <1>2, <4>5
    <3> QED
      BY <2>2, <3>1, <3>2
  <2>7. CASE SaveAlternate \/ SetBestChain \/ HandleOrphans
    <3>1. job.phase = "connect" \/ job.phase = "resolve"
      BY <2>7, Zenon DEF SaveAlternate, SetBestChain, HandleOrphans
    <3> QED
      BY <1>2, <3>1 DEF Moving
  <2> QED
    BY <1>2, <2>3, <2>4, <2>5, <2>6, <2>7, Zenon DEF Proceed
<1> QED
  BY <1>1, <1>2, HeavierKeeps, Invariance, PTL DEF Spec, TipKeepsWork

-----------------------------------------------------------------------------
(***************************************************************************)
(* The chain on disk implements the abstract ledger: it moves by one valid *)
(* block at a time, and no crash, failure or reorganization makes it       *)
(* forget or invent a coin.                                                *)
(***************************************************************************)
THEOREM ImplementsLedger == Spec => RefinesLedger
<1>1. Init => L!LedgerInit
  BY DEF Init, L!LedgerInit, NoCoins, L!NoCoins, None, L!None
<1>2. ASSUME IInv, [Next]_vars PROVE [L!LedgerNext]_<<meta, coins>>
  <2>1. /\ tip = meta /\ coins = Replay[tip] /\ tip \in Block
    BY <1>2 DEF IInv, TypeOK, ChainOnDisk, CoinsReplayTip
  <2>2. CASE Disconnect
    <3>1. tip \in Block \ {Genesis}
      BY <1>2, <2>2, AboveFork DEF Disconnect
    <3>2. meta' = Prev[meta]
      BY <2>1, <2>2 DEF Disconnect
    <3>3. coins' = Replay[meta']
      BY <1>2, <2>2, DisconnectKeeps DEF IInv, CoinsReplayTip
    <3>4. L!Retract
      BY <2>1, <3>1, <3>2, <3>3 DEF L!Retract
    <3> QED
      BY <3>4 DEF L!LedgerNext
  <2>3. ASSUME NEW b \in Block \ {Genesis}, Prev[b] = tip, ValidOn(coins, b),
               meta' = b, coins' = Replay[b]
        PROVE  L!LedgerNext
    <3>1. L!Extend(b)
      BY <2>1, <2>3 DEF L!Extend, ValidOn, L!ValidOn, VerifyInputs, L!VerifyInputs,
         None, L!None
    <3> QED
      BY <3>1 DEF L!LedgerNext
  <2>4. CASE Reconnect
    <3>1. /\ Step \in Block \ {Genesis} /\ Prev[Step] = tip
          /\ Step \notin BadPow \cup BadBody
      BY <1>2, <2>4, StepFacts DEF Reconnect
    <3>2. ValidOn(coins, Step)
      BY <2>4, <3>1 DEF Reconnect, VerifyContext, Verify, ValidOn
    <3>3. meta' = Step /\ coins' = Replay[Step]
      BY <1>2, <2>4, <3>1, <3>2, ConnectBlockKeeps DEF Reconnect
    <3> QED
      BY <2>3, <3>1, <3>2, <3>3
  <2>5. CASE ConnectTip
    <3>1. /\ job.entry \in Block \ {Genesis} /\ Prev[job.entry] = tip
          /\ job.entry \notin BadPow \cup BadBody
      BY <1>2, <2>5 DEF IInv, TypeOK, Job, JobSound, ConnectTip
    <3>2. ValidOn(coins, job.entry)
      BY <2>5, <3>1 DEF ConnectTip, VerifyContext, Verify, ValidOn
    <3>3. meta' = job.entry /\ coins' = Replay[job.entry]
      BY <1>2, <2>5, <3>1, <3>2, ConnectBlockKeeps DEF ConnectTip
    <3> QED
      BY <2>3, <3>1, <3>2, <3>3
  <2>6. CASE ~Disconnect /\ ~Reconnect /\ ~ConnectTip
    <3>1. UNCHANGED <<meta, coins>>
      BY Zenon, <1>2, <2>6 DEF Next, Receive, Proceed, AddIgnored, AddInvalidChild,
         AddInsane, StoreOrphan, AddBlock, SaveAlternate, SetBestChain, ReconnectFails, ConnectTipFails,
         HandleOrphans, Crash, disk, vars
    <3> QED
      BY <3>1
  <2> QED
    BY <2>2, <2>4, <2>5, <2>6
<1> QED
  BY <1>1, <1>2, Invariance, PTL DEF Spec, RefinesLedger, L!LedgerSpec
-----------------------------------------------------------------------------
\* A list of orphans in which each hash and each parent occurs once.
Apart(s) ==
    \A i, j \in DOMAIN s : i # j =>
        s[i].hash # s[j].hash /\ Prev[s[i].hash] # Prev[s[j].hash]

\* Evicting and removing orphans keeps the others apart, and what is removed
\* is gone together with its parent.
LEMMA EvictApart ==
  ASSUME NEW s \in Seq(Orphan), NEW e \in 0 .. Len(s), Apart(s)
  PROVE  Apart(Evict(s, e))
<1>1. PICK d \in Nat : \A i \in DOMAIN Evict(s, e) :
            i \in Nat /\ i + d \in DOMAIN s /\ Evict(s, e)[i] = s[i + d]
  BY EvictShifts
<1>2. ASSUME NEW i \in DOMAIN Evict(s, e), NEW j \in DOMAIN Evict(s, e), i # j
      PROVE  i + d \in DOMAIN s /\ j + d \in DOMAIN s /\ i + d # j + d
  BY <1>1, <1>2
<1> QED
  BY <1>1, <1>2 DEF Apart

LEMMA RemoveApart ==
  ASSUME NEW s \in Seq(Orphan), NEW k \in DOMAIN s, Apart(s)
  PROVE  /\ Apart(RemoveAt(s, k))
         /\ \A i \in DOMAIN RemoveAt(s, k) :
                /\ RemoveAt(s, k)[i].hash # s[k].hash
                /\ Prev[RemoveAt(s, k)[i].hash] # Prev[s[k].hash]
<1> DEFINE r == RemoveAt(s, k)
           f(i) == IF i < k THEN i ELSE i + 1
<1>1. \A i \in DOMAIN r :
          /\ i \in 1 .. Len(s) - 1
          /\ r[i] = IF i < k THEN s[i] ELSE s[i + 1]
  BY RemoveShifts
<1> HIDE DEF r
<1>2. k \in Nat /\ Len(s) \in Nat /\ DOMAIN s = 1 .. Len(s)
  OBVIOUS
<1>3. ASSUME NEW i \in DOMAIN r
      PROVE  i \in Nat /\ f(i) \in DOMAIN s /\ f(i) # k /\ r[i] = s[f(i)]
  BY <1>1, <1>2
<1>4. ASSUME NEW i \in DOMAIN r, NEW j \in DOMAIN r, i # j
      PROVE  f(i) # f(j)
  BY <1>2, <1>3, <1>4
<1> HIDE DEF f
<1>5. Apart(r)
  BY <1>3, <1>4 DEF Apart
<1>6. \A i \in DOMAIN r : r[i].hash # s[k].hash /\ Prev[r[i].hash] # Prev[s[k].hash]
  BY <1>3 DEF Apart
<1> QED
  BY <1>5, <1>6 DEF r

\* What OrphansPlaced says of the call is kept by steps that neither touch the
\* orphans nor the index, as long as the call keeps its block or ends.
LEMMA OrphansRest ==
  ASSUME IInv, OrphansPlaced, UNCHANGED <<index, orphans>>,
         \/ job' = Idle /\ job.phase # "resolve"
         \/ UNCHANGED job
         \/ /\ job.phase \notin {"idle", "resolve"} /\ job'.phase \notin {"idle", "resolve"}
            /\ job'.entry = job.entry
  PROVE  OrphansPlaced'
<1>1. \A i \in DOMAIN orphans : Prev[orphans[i].hash] \in index => job.phase = "resolve"
  BY DEF OrphansPlaced
<1>2. job.phase = "idle" => job = Idle
  BY DEF IInv, JobSound
<1>3. CASE job' = Idle /\ job.phase # "resolve"
  BY <1>1, <1>3, IdleType DEF OrphansPlaced, OrphansSound, HasOrphan
<1>4. CASE UNCHANGED job
  BY <1>4 DEF OrphansPlaced, OrphansSound, HasOrphan
<1>5. CASE /\ job.phase \notin {"idle", "resolve"} /\ job'.phase \notin {"idle", "resolve"}
           /\ job'.entry = job.entry
  BY <1>1, <1>5, IdleType DEF OrphansPlaced, OrphansSound, HasOrphan
<1> QED
  BY <1>3, <1>4, <1>5

\* Indexing the block of the call leaves orphans on top of it to look at.
LEMMA OrphansIndexed ==
  ASSUME IInv, OrphansPlaced, job.phase \in {"connect", "final"}, SaveEntry(job.entry),
         job' = Goto(job, "resolve"), UNCHANGED orphans
  PROVE  OrphansPlaced'
<1>1. job'.phase = "resolve" /\ job'.entry = job.entry /\ job' # Idle
  BY GotoType, IdleType DEF IInv, TypeOK, Phase
<1>2. index' = index \cup {job.entry}
  BY DEF SaveEntry
<1>3. \A i \in DOMAIN orphans : orphans[i].hash # job.entry /\ Prev[orphans[i].hash] \notin index
  BY DEF OrphansPlaced, HasOrphan
<1>4. OrphansSound'
  BY <1>1, <1>2, <1>3 DEF OrphansPlaced, OrphansSound
<1> QED
  BY <1>1, <1>2, <1>3, <1>4 DEF OrphansPlaced, HasOrphan

LEMMA OrphansStored ==
  ASSUME IInv, OrphansPlaced, NEW b \in Block, NEW body \in Body, StoreOrphan(b, body)
  PROVE  OrphansPlaced'
<1> DEFINE o == [hash |-> b, body |-> body]
<1>1. /\ job = Idle /\ UNCHANGED <<job, index>>
      /\ ~HasOrphan(b) /\ b \notin index /\ Prev[b] \notin index
  BY DEF StoreOrphan, Fresh, Known
<1>2. orphans \in Seq(Orphan) /\ Apart(orphans) /\ o \in Orphan /\ o.hash = b
  BY DEF IInv, TypeOK, OrphansPlaced, OrphansSound, Apart, Orphan
<1>3. \A i \in DOMAIN orphans :
          orphans[i].hash \notin index /\ Prev[orphans[i].hash] \notin index
  BY <1>1, IdleType DEF OrphansPlaced, OrphansSound
<1>4. \E s \in Seq(Orphan) :
         /\ orphans' = Append(s, o)
         /\ Apart(s)
         /\ \A i \in DOMAIN s : \E j \in DOMAIN orphans : s[i] = orphans[j]
         /\ \A i \in DOMAIN s : Prev[s[i].hash] # Prev[b]
  <2>1. PICK e \in 0 .. Len(orphans) :
          \/ NextOrphan(Prev[b]) = {} /\ orphans' = Append(Evict(orphans, e), o)
          \/ \E i \in NextOrphan(Prev[b]) :
                /\ e < Len(orphans)
                /\ orphans' = Append(Evict(RemoveAt(orphans, i), e), o)
    BY DEF StoreOrphan
  <2>2. CASE NextOrphan(Prev[b]) = {} /\ orphans' = Append(Evict(orphans, e), o)
    <3> DEFINE s == Evict(orphans, e)
    <3>1. /\ s \in Seq(Orphan) /\ Apart(s)
          /\ \A i \in DOMAIN s : \E j \in DOMAIN orphans : s[i] = orphans[j]
      BY <1>2, EvictKeeps, EvictApart
    <3> HIDE DEF s
    <3>2. \A j \in DOMAIN orphans : Prev[orphans[j].hash] # Prev[b]
      BY <2>2 DEF NextOrphan
    <3>3. orphans' = Append(s, o)
      BY <2>2 DEF s
    <3>4. \A i \in DOMAIN s : Prev[s[i].hash] # Prev[b]
      BY <3>1, <3>2
    <3> QED
      BY Zenon, <3>1, <3>3, <3>4
  <2>3. ASSUME NEW i \in NextOrphan(Prev[b]), e < Len(orphans),
               orphans' = Append(Evict(RemoveAt(orphans, i), e), o)
        PROVE  \E s \in Seq(Orphan) :
                  /\ orphans' = Append(s, o)
                  /\ Apart(s)
                  /\ \A k \in DOMAIN s : \E j \in DOMAIN orphans : s[k] = orphans[j]
                  /\ \A k \in DOMAIN s : Prev[s[k].hash] # Prev[b]
    <3> DEFINE r == RemoveAt(orphans, i)
               s == Evict(r, e)
    <3>1. i \in DOMAIN orphans /\ Prev[orphans[i].hash] = Prev[b]
      BY DEF NextOrphan
    <3>2. /\ r \in Seq(Orphan) /\ Len(r) = Len(orphans) - 1 /\ Apart(r)
          /\ \A k \in DOMAIN r : \E j \in DOMAIN orphans : r[k] = orphans[j]
          /\ \A k \in DOMAIN r : Prev[r[k].hash] # Prev[b]
      <4>1. /\ r \in Seq(Orphan) /\ Len(r) = Len(orphans) - 1
            /\ \A k \in DOMAIN r : \E j \in DOMAIN orphans : r[k] = orphans[j]
        BY Zenon, <1>2, <3>1, RemoveKeeps
      <4>2. /\ Apart(r)
            /\ \A k \in DOMAIN r : Prev[r[k].hash] # Prev[orphans[i].hash]
        BY Zenon, <1>2, <3>1, RemoveApart
      <4> QED
        BY Zenon, <3>1, <4>1, <4>2
    <3> HIDE DEF r
    <3>3. e \in 0 .. Len(r)
      <4>1. Len(r) = Len(orphans) - 1 /\ Len(orphans) \in Nat
        BY Zenon, <1>2, <3>2, LenProperties
      <4> QED
        BY <2>3, <4>1
    <3>4. /\ s \in Seq(Orphan) /\ Apart(s)
          /\ \A k \in DOMAIN s : \E j \in DOMAIN r : s[k] = r[j]
      BY Zenon, <3>2, <3>3, EvictKeeps, EvictApart
    <3>5. orphans' = Append(s, o)
      BY <2>3 DEF s, r
    <3> HIDE DEF s
    <3>6. /\ \A k \in DOMAIN s : \E j \in DOMAIN orphans : s[k] = orphans[j]
          /\ \A k \in DOMAIN s : Prev[s[k].hash] # Prev[b]
      BY <3>2, <3>4
    <3> QED
      BY Zenon, <3>4, <3>5, <3>6
  <2> QED
    BY <2>1, <2>2, <2>3
<1>5. PICK s \in Seq(Orphan) :
         /\ orphans' = Append(s, o)
         /\ Apart(s)
         /\ \A i \in DOMAIN s : \E j \in DOMAIN orphans : s[i] = orphans[j]
         /\ \A i \in DOMAIN s : Prev[s[i].hash] # Prev[b]
  BY <1>4
<1>6. /\ DOMAIN orphans' = DOMAIN s \cup {Len(s) + 1}
      /\ \A i \in DOMAIN s : orphans'[i] = s[i]
      /\ orphans'[Len(s) + 1] = o
  BY <1>2, <1>5, AppendProperties
<1> HIDE DEF o
<1>7. \A i \in DOMAIN s :
          /\ s[i].hash # b /\ s[i].hash \notin index /\ Prev[s[i].hash] \notin index
  BY <1>1, <1>3, <1>5 DEF HasOrphan
<1>8. \A i \in DOMAIN orphans' :
          orphans'[i].hash \notin index /\ Prev[orphans'[i].hash] \notin index
  BY <1>1, <1>2, <1>6, <1>7
<1>9. Apart(orphans')
  BY <1>2, <1>5, <1>6, <1>7 DEF Apart
<1> QED
  BY <1>1, <1>8, <1>9, IdleType DEF OrphansPlaced, OrphansSound, Apart

LEMMA OrphansHandled ==
  ASSUME IInv, OrphansPlaced, HandleOrphans
  PROVE  OrphansPlaced'
<1>1. job.phase = "resolve" /\ UNCHANGED index
  BY DEF HandleOrphans
<1>2. orphans \in Seq(Orphan) /\ Apart(orphans)
  BY DEF IInv, TypeOK, OrphansPlaced, OrphansSound, Apart
<1>3. \A i \in DOMAIN orphans :
          /\ orphans[i].hash \notin index
          /\ Prev[orphans[i].hash] \in index => Prev[orphans[i].hash] = job.entry
  BY DEF OrphansPlaced, OrphansSound
<1>4. ASSUME NEW k \in NextOrphan(job.entry),
             job' = Connecting(orphans[k].hash, orphans[k].body),
             orphans' = RemoveAt(orphans, k)
      PROVE  OrphansPlaced'
  <2>1. k \in DOMAIN orphans /\ Prev[orphans[k].hash] = job.entry
    BY DEF NextOrphan
  <2>2. orphans[k] \in Orphan
    BY <1>2, <2>1
  <2>3. orphans[k].hash \in Block /\ orphans[k].body \in Body
    BY <2>2 DEF Orphan
  <2>4. job'.phase = "connect" /\ job'.entry = orphans[k].hash /\ job' # Idle
    BY <1>4, <2>3, ConnectingType, IdleType
  <2>5. /\ Apart(orphans')
        /\ \A i \in DOMAIN orphans' :
                /\ orphans'[i].hash # orphans[k].hash
                /\ Prev[orphans'[i].hash] # job.entry
                /\ \E j \in DOMAIN orphans : orphans'[i] = orphans[j]
    <3> DEFINE r == RemoveAt(orphans, k)
    <3>1. \A i \in DOMAIN r : \E j \in DOMAIN orphans : r[i] = orphans[j]
      BY Zenon, <1>2, <2>1, RemoveKeeps
    <3>2. /\ Apart(r)
          /\ \A i \in DOMAIN r : /\ r[i].hash # orphans[k].hash
                                 /\ Prev[r[i].hash] # Prev[orphans[k].hash]
      BY Zenon, <1>2, <2>1, RemoveApart
    <3>3. orphans' = r
      BY <1>4
    <3> HIDE DEF r
    <3>4. Apart(orphans')
      BY <3>2, <3>3
    <3>5. \A i \in DOMAIN r : /\ r[i].hash # orphans[k].hash
                             /\ Prev[r[i].hash] # job.entry
                             /\ \E j \in DOMAIN orphans : r[i] = orphans[j]
      BY Zenon, <2>1, <3>1, <3>2
    <3> QED
      BY <3>3, <3>4, <3>5
  <2>6. \A i \in DOMAIN orphans' :
            orphans'[i].hash \notin index /\ Prev[orphans'[i].hash] \notin index
    BY <1>3, <2>5
  <2> QED
    BY <1>1, <2>4, <2>5, <2>6 DEF OrphansPlaced, OrphansSound, HasOrphan, Apart
<1>5. ASSUME NextOrphan(job.entry) = {}, job' = Idle, UNCHANGED orphans
      PROVE  OrphansPlaced'
  <2>1. \A i \in DOMAIN orphans : Prev[orphans[i].hash] \notin index
    BY <1>3, <1>5 DEF NextOrphan
  <2>2. job'.phase = "idle"
    BY <1>5, IdleType
  <2>3. orphans' = orphans /\ index' = index
    BY Zenon, <1>1, <1>5
  <2>4. OrphansSound'
    <3>1. \A i \in DOMAIN orphans : orphans[i].hash \notin index
      BY Zenon, <1>3
    <3>2. \A i, j \in DOMAIN orphans : i # j =>
              orphans[i].hash # orphans[j].hash /\ Prev[orphans[i].hash] # Prev[orphans[j].hash]
      BY Zenon, <1>2 DEF Apart
    <3> QED
      BY <2>1, <2>3, <3>1, <3>2 DEF OrphansSound
  <2> QED
    BY <2>1, <2>2, <2>3, <2>4 DEF OrphansPlaced
<1> QED
  BY <1>4, <1>5 DEF HandleOrphans

\* Every step of the chain keeps the orphans placed.
LEMMA OrphansPlacedKept == IInv /\ OrphansPlaced /\ [Next]_vars => OrphansPlaced'
<1> SUFFICES ASSUME IInv, OrphansPlaced, [Next]_vars PROVE OrphansPlaced'
  OBVIOUS
<1>1. job \in Job /\ (job.phase = "idle" => job = Idle)
  BY DEF IInv, TypeOK, JobSound
<1>2. ASSUME NEW b \in Block, NEW body \in Body, AddBlock(b, body) PROVE OrphansPlaced'
  <2>1. /\ job = Idle /\ ~HasOrphan(b) /\ UNCHANGED <<index, orphans>>
        /\ job'.phase = "connect" /\ job'.entry = b /\ job' # Idle
    BY <1>2, ConnectingType, IdleType DEF AddBlock, Fresh, Known
  <2>2. \A i \in DOMAIN orphans : Prev[orphans[i].hash] \notin index
    BY <2>1 DEF OrphansPlaced, OrphansSound
  <2> QED
    BY <2>1, <2>2 DEF OrphansPlaced, OrphansSound, HasOrphan
<1>3. ASSUME NEW b \in Block, NEW body \in Body, Receive(b, body) PROVE OrphansPlaced'
  <2>1. CASE AddIgnored(b, body) \/ AddInvalidChild(b) \/ AddInsane(b, body)
    <3>1. UNCHANGED <<index, orphans, job>>
      BY <2>1 DEF AddIgnored, AddInvalidChild, AddInsane, vars
    <3> QED
      BY <3>1, OrphansRest
  <2> QED
    BY <1>2, <1>3, <2>1, OrphansStored DEF Receive
<1>4. CASE SaveAlternate
  <2>1. job.phase = "connect" /\ UNCHANGED orphans
    BY <1>4 DEF SaveAlternate
  <2>2. CASE SaveEntry(job.entry) /\ job' = Goto(job, "resolve")
    BY <2>1, <2>2, OrphansIndexed
  <2>3. CASE job' = Idle /\ UNCHANGED index
    BY <2>1, <2>3, OrphansRest
  <2> QED
    BY <1>4, <2>2, <2>3 DEF SaveAlternate
<1>5. CASE ConnectTip
  BY <1>5, OrphansIndexed DEF ConnectTip
<1>6. CASE SetBestChain \/ Disconnect \/ Reconnect \/ ReconnectFails \/ ConnectTipFails
  <2>1. UNCHANGED <<index, orphans>> /\ job.phase \notin {"idle", "resolve"}
    BY <1>6, Zenon DEF SetBestChain, Disconnect, Reconnect, ReconnectFails, ConnectTipFails
  <2>2. \A j \in Job, t \in Block : Descend(j, t) \in Phase \ {"resolve"}
    BY DEF Descend, Climb, Phase
  <2>3. \A j \in Job, t \in Block : Climb(j, t) \in Phase \ {"resolve"}
    BY DEF Climb, Phase
  <2>4. ASSUME NEW j \in Job, NEW p \in Phase \ {"resolve"}, j.entry = job.entry,
               job' = Goto(j, p)
        PROVE  OrphansPlaced'
    <3>1. job' = Idle \/ (job'.phase \notin {"idle", "resolve"} /\ job'.entry = job.entry)
      BY <2>4, GotoType
    <3> QED
      BY <2>1, <3>1, OrphansRest
  <2>5. tip \in Block /\ Genesis \in Block
    BY TreeAssumption DEF IInv, TypeOK
  <2>6. CASE SetBestChain
    <3>1. job.entry # Genesis /\ job.entry \in Block /\ Prev[job.entry] \in Block
      BY <1>1, <2>1, TreeAssumption DEF IInv, JobSound, Job
    <3>2. CASE Prev[job.entry] = tip
      <4>1. job' = [job EXCEPT !.phase = "final", !.old = tip, !.fork = tip, !.target = tip]
        BY <2>6, <3>2, Zenon DEF SetBestChain
      <4>2. job'.phase = "final" /\ job'.entry = job.entry
        BY <1>1, <4>1 DEF Job
      <4> QED
        BY <2>1, <4>2, OrphansRest
    <3>3. CASE Prev[job.entry] # tip
      <4>1. PICK f \in Forks(job.entry) :
                LET j == [job EXCEPT !.old = tip, !.fork = f, !.target = Prev[job.entry]]
                IN  job' = Goto(j, Descend(j, tip))
        BY <2>6, <3>3, Zenon DEF SetBestChain
      <4> DEFINE j == [job EXCEPT !.old = tip, !.fork = f, !.target = Prev[job.entry]]
      <4>2. j \in Job /\ j.entry = job.entry
        BY Zenon, <1>1, <2>5, <3>1 DEF Job, Forks
      <4>3. job' = Goto(j, Descend(j, tip))
        BY <4>1
      <4> HIDE DEF j
      <4> QED
        BY <2>2, <2>4, <2>5, <4>2, <4>3
    <3> QED
      BY <3>2, <3>3
  <2>7. CASE Disconnect
    <3>1. tip # Genesis /\ Prev[tip] \in Block
      <4>1. tip # Genesis
        BY <2>7, IInvNoAbort DEF Disconnect, NoAbort
      <4> QED
        BY <2>5, <4>1, TreeAssumption
    <3>2. job' = Goto(job, Descend(job, Prev[tip]))
      BY <2>7 DEF Disconnect
    <3> QED
      BY <1>1, <2>2, <2>4, <3>1, <3>2
  <2>8. CASE Reconnect
    <3>1. job' = Goto(job, Climb(job, Step))
      BY <2>8 DEF Reconnect
    <3>2. Climb(job, Step) \in Phase \ {"resolve"}
      BY DEF Climb, Phase
    <3> QED
      BY <1>1, <2>4, <3>1, <3>2
  <2>9. CASE ReconnectFails \/ ConnectTipFails
    <3>1. job' = GiveUp(job)
      BY <2>9 DEF ReconnectFails, ConnectTipFails
    <3> DEFINE r == [job EXCEPT !.target = job.old, !.restoring = TRUE]
    <3>2. r \in Job /\ r.entry = job.entry
      BY Zenon, <1>1 DEF Job
    <3>3. job' = Idle \/ job' = Goto(r, Descend(r, tip))
      BY <3>1 DEF GiveUp
    <3> HIDE DEF r
    <3> QED
      BY <2>1, <2>2, <2>4, <2>5, <3>2, <3>3, OrphansRest
  <2> QED
    BY <1>6, <2>6, <2>7, <2>8, <2>9
<1>7. CASE HandleOrphans
  BY <1>7, OrphansHandled
<1>8. CASE Crash
  <2>1. orphans' = << >> /\ job' = Idle
    BY <1>8 DEF Crash
  <2> QED
    BY <2>1, IdleType DEF OrphansPlaced, OrphansSound, HasOrphan
<1>9. CASE UNCHANGED vars
  BY <1>9, OrphansRest DEF vars
<1> QED
  BY <1>3, <1>4, <1>5, <1>6, <1>7, <1>8, <1>9 DEF Next, Proceed

\* orphan_map and orphan_prev agree, and no orphan is left behind once its
\* parent is indexed and the call that indexed it has returned: for every
\* block tree, limit on orphans and order of arrivals.
THEOREM OrphansCorrect == Spec => []OrphansSound
<1>1. Init => OrphansPlaced
  BY IdleType DEF Init, OrphansPlaced, OrphansSound, HasOrphan
<1>2. OrphansPlaced => OrphansSound
  BY DEF OrphansPlaced
<1> QED
  BY <1>1, <1>2, OrphansPlacedKept, Invariance, PTL DEF Spec
=============================================================================
