-------------------------- MODULE CpuMiner_proofs ---------------------------
(***************************************************************************)
(* Two of the checks of miner.c hold for every number of threads:          *)
(* "CHECK(cpu->active == 0)" and "CHECK(thread->result == -1)".            *)
(***************************************************************************)
EXTENDS CpuMiner, FiniteSetTheorems, TLAPS

Alive == {t \in Thread : pc[t] # "off"}

\* The loop thread is in btc_cpuminer_stop while the flag is up; the flag
\* means that there is no job and no result, and a miner that is off has
\* neither threads nor results.
MinerInv ==
    /\ TypeOK
    /\ active = Cardinality(Alive)
    /\ stop <=> main \in {"join", "joining"}
    /\ stop => mining /\ job = None
    /\ ~mining => \A t \in Thread : pc[t] = "off"
    /\ stop \/ ~mining => \A t \in Thread : result[t] = -1
    /\ \A t \in Thread : pc[t] \in {"top", "mine"} => result[t] = -1

\* There are finitely many threads.
LEMMA FiniteThreads ==
  ASSUME NEW S, S \subseteq Thread
  PROVE  IsFiniteSet(S) /\ Cardinality(S) \in Nat /\ Cardinality(S) <= NThreads
<1>1. IsFiniteSet(Thread) /\ Cardinality(Thread) = NThreads
  BY MinerAssumption, FS_Interval DEF Thread
<1>2. IsFiniteSet(S) /\ Cardinality(S) <= Cardinality(Thread)
  BY <1>1, FS_Subset
<1> QED
  BY <1>1, <1>2, FS_CardinalityType

\* A step that neither starts nor ends a thread leaves their number alone.
LEMMA SameAlive ==
  ASSUME MinerInv, UNCHANGED active,
         \A t \in Thread : pc'[t] = "off" <=> pc[t] = "off"
  PROVE  active' = Cardinality(Alive')
<1>1. Alive' = Alive
  BY DEF Alive
<1> QED
  BY <1>1 DEF MinerInv

LEMMA InitMinerInv == Init => MinerInv
<1> SUFFICES ASSUME Init PROVE MinerInv
  OBVIOUS
<1>1. TypeOK
  <2>1. 0 \in 0 .. MaxTip /\ 0 \in 0 .. NThreads
    BY MinerAssumption
  <2>2. /\ solves \in [Thread -> BOOLEAN] /\ fits \in [Thread -> BOOLEAN]
        /\ mining \in BOOLEAN /\ stop \in BOOLEAN
    BY Zenon DEF Init
  <2>3. result \in [Thread -> {-1, 0, 1}] /\ local \in [Thread -> {-1, 0, 1}]
    BY DEF Init
  <2>4. pc \in [Thread -> {"off", "top", "lock", "wait", "mine"}]
    BY DEF Init
  <2> QED
    BY <2>1, <2>2, <2>3, <2>4 DEF Init, TypeOK
<1>2. Alive = {}
  BY DEF Init, Alive
<1>3. active = Cardinality(Alive)
  BY <1>2, FS_EmptySet DEF Init
<1> QED
  BY <1>1, <1>3 DEF Init, MinerInv

\* btc_cpuminer_start.
LEMMA StartKeeps ==
  ASSUME MinerInv, NEW n \in Thread, Start(n)
  PROVE  MinerInv'
<1> USE DEF MinerInv, Start, TypeOK
<1>1. n \in Nat /\ n <= NThreads /\ NThreads \in Nat
  BY MinerAssumption DEF Thread
<1>2. TypeOK'
  BY <1>1 DEF threadVars
<1>3. Alive' = 1 .. n
  BY <1>1 DEF Alive, Thread
<1>4. active' = Cardinality(Alive')
  BY <1>1, <1>3, FS_Interval
<1> QED
  BY <1>2, <1>4 DEF threadVars

\* btc_cpuminer_stop, up to the first unlock.
LEMMA StopKeeps ==
  ASSUME MinerInv, Stop
  PROVE  MinerInv'
<1>1. \E ts \in SUBSET Waiting : Wake(ts)
  BY Zenon DEF Stop, Signal
<1>2. PICK ts \in SUBSET Waiting : Wake(ts)
  BY <1>1
<1> USE DEF MinerInv, TypeOK
<1>3. /\ pc' \in [Thread -> {"off", "top", "lock", "wait", "mine"}]
      /\ \A t \in Thread : /\ pc'[t] = "off" <=> pc[t] = "off"
                           /\ pc'[t] \in {"top", "mine"} => pc[t] \in {"top", "mine"}
  BY <1>2 DEF Wake, Waiting
<1>4. active' = Cardinality(Alive')
  BY <1>3, SameAlive DEF Stop
<1> QED
  BY <1>3, <1>4 DEF Stop, StopJob, NewFields

\* The rest of btc_cpuminer_stop.
LEMMA JoinKeeps ==
  ASSUME MinerInv, Join
  PROVE  MinerInv'
<1> USE DEF MinerInv, TypeOK
<1>1. active' = Cardinality(Alive')
  BY SameAlive DEF Join
<1>2. CASE active > 0
  <2>1. stop /\ mining /\ job = None /\ \A t \in Thread : result[t] = -1
    BY DEF Join
  <2>2. ~ (active = 0)
    BY <1>2
  <2>3. UNCHANGED <<mining, stop>> /\ main' = "joining"
    BY Zenon, <2>2 DEF Join
  <2> QED
    BY <1>1, <2>1, <2>3 DEF Join, threadVars
<1>3. CASE active = 0
  <2>1. Alive = {}
    BY Zenon, <1>3, FiniteThreads, FS_EmptySet DEF Alive
  <2>2. \A t \in Thread : pc[t] = "off"
    BY <2>1 DEF Alive
  <2> QED
    BY Zenon, <1>1, <1>3, <2>2 DEF Join, threadVars
<1> QED
  BY <1>2, <1>3 DEF Join

\* The cases of on_tick that give the threads new fields.
LEMMA NewFieldsKeep ==
  ASSUME MinerInv, Ticking, NewFields, NEW ts \in SUBSET Waiting, Wake(ts),
         tip' \in 0 .. MaxTip, job' \in {None} \cup 0 .. MaxTip,
         lastTip' \in {None} \cup 0 .. MaxTip,
         UNCHANGED <<mining, stop, active, local, main>>
  PROVE  MinerInv'
<1> USE DEF MinerInv, TypeOK
<1>1. /\ pc' \in [Thread -> {"off", "top", "lock", "wait", "mine"}]
      /\ \A t \in Thread : pc'[t] = "off" <=> pc[t] = "off"
  BY DEF Wake, Waiting
<1>2. active' = Cardinality(Alive')
  BY <1>1, SameAlive
<1> QED
  BY <1>1, <1>2 DEF NewFields, Ticking

LEMMA TickKeeps ==
  ASSUME MinerInv,
         TickNewJob \/ TickFound \/ TickAbort \/ TickStale \/ TickRefresh \/ TickAdvance
  PROVE  MinerInv'
<1>0. tip \in 0 .. MaxTip /\ lastTip \in {None} \cup 0 .. MaxTip
  BY DEF MinerInv, TypeOK
<1>1. CASE TickNewJob \/ TickStale \/ TickRefresh
  BY <1>0, <1>1, NewFieldsKeep
     DEF TickNewJob, TickStale, TickRefresh, StartJob, Broadcast
<1>2. CASE TickFound
  <2>1. CASE job # tip
    BY <1>0, <1>2, <2>1, NewFieldsKeep DEF TickFound, StartJob, Broadcast
  <2>2. CASE job = tip
    <3>1. Wake({})
      BY <1>2, <2>2 DEF TickFound, Wake, MinerInv, TypeOK
    <3>2. tip' \in 0 .. MaxTip
      BY <1>0, <1>2, <2>2, MinerAssumption DEF TickFound
    <3> QED
      BY <1>0, <1>2, <2>2, <3>1, <3>2, NewFieldsKeep DEF TickFound, StopJob
  <2> QED
    BY <2>1, <2>2
<1>3. CASE TickAbort
  <2>1. active' = Cardinality(Alive')
    BY <1>3, SameAlive DEF TickAbort
  <2> QED
    BY <1>3, <2>1 DEF TickAbort, Ticking, MinerInv, TypeOK, threadVars
<1>4. CASE TickAdvance
  <2>1. /\ pc' \in [Thread -> {"off", "top", "lock", "wait", "mine"}]
        /\ \A t \in Thread : pc'[t] = "off" <=> pc[t] = "off"
    BY <1>4 DEF TickAdvance, Broadcast, Wake, Waiting, MinerInv, TypeOK
  <2>2. active' = Cardinality(Alive')
    BY <1>4, <2>1, SameAlive DEF TickAdvance
  <2>3. fits' \in [Thread -> BOOLEAN] /\ result' \in [Thread -> {-1, 0, 1}]
    BY <1>4 DEF TickAdvance, MinerInv, TypeOK
  <2> QED
    BY <1>4, <2>1, <2>2, <2>3 DEF TickAdvance, Ticking, MinerInv, TypeOK
<1> QED
  BY <1>1, <1>2, <1>3, <1>4

\* What a mining thread does with the lock held, whatever brought it there.
LEMMA ContinueKeeps ==
  ASSUME MinerInv, NEW t \in Thread, pc[t] \in {"top", "lock"},
         result' \in [Thread -> {-1, 0, 1}], solves' \in [Thread -> BOOLEAN],
         stop => result' = result,
         \A u \in Thread \ {t} : result'[u] = result[u],
         Continue(t, result'[t]),
         UNCHANGED <<tip, mining, stop, job, lastTip, local>>
  PROVE  MinerInv'
<1> USE DEF MinerInv, TypeOK
<1>1. mining
  OBVIOUS
<1>2. CASE stop
  <2>1. Alive' = Alive \ {t} /\ t \in Alive
    BY <1>2 DEF Continue, Alive
  <2>2. Cardinality(Alive') = Cardinality(Alive) - 1 /\ Cardinality(Alive') \in Nat
    BY <2>1, FiniteThreads, FS_RemoveElement DEF Alive
  <2>3. active' = Cardinality(Alive') /\ active' \in 0 .. NThreads
    BY <1>2, <2>2, MinerAssumption DEF Continue
  <2> QED
    BY <1>1, <1>2, <2>3 DEF Continue
<1>3. CASE ~stop
  <2>1. /\ pc' \in [Thread -> {"off", "top", "lock", "wait", "mine"}]
        /\ \A u \in Thread : pc'[u] = "off" <=> pc[u] = "off"
        /\ UNCHANGED <<active, main>>
        /\ fits' \in [Thread -> BOOLEAN]
    BY Zenon, <1>3 DEF Continue
  <2>2. active' = Cardinality(Alive')
    BY <2>1, SameAlive
  <2>3. \A u \in Thread : pc'[u] \in {"top", "mine"} => result'[u] = -1
    BY <1>3 DEF Continue
  <2> QED
    BY <1>1, <1>3, <2>1, <2>2, <2>3
<1> QED
  BY <1>2, <1>3

LEMMA ThreadKeeps ==
  ASSUME MinerInv, NEW t \in Thread, ThreadStep(t)
  PROVE  MinerInv'
<1>1. CASE Top(t)
  <2>1. result' \in [Thread -> {-1, 0, 1}] /\ solves' \in [Thread -> BOOLEAN]
    BY <1>1 DEF Top, MinerInv, TypeOK
  <2>2. /\ stop => result' = result
        /\ \A u \in Thread \ {t} : result'[u] = result[u]
    BY <1>1 DEF Top, MinerInv, TypeOK
  <2> QED
    BY <1>1, <2>1, <2>2, ContinueKeeps DEF Top
<1>2. CASE Resume(t)
  <2>1. result' = result /\ solves' = solves
    BY <1>2 DEF Resume
  <2> QED
    BY <1>2, <2>1, ContinueKeeps DEF Resume, MinerInv, TypeOK
<1>3. CASE \E r \in {0, 1} : Mine(t, r)
  <2>1. PICK r \in {0, 1} : Mine(t, r)
    BY <1>3
  <2>2. active' = Cardinality(Alive')
    BY <2>1, SameAlive DEF Mine, MinerInv, TypeOK
  <2> QED
    BY <2>1, <2>2 DEF Mine, MinerInv, TypeOK, threadVars
<1> QED
  BY <1>1, <1>2, <1>3 DEF ThreadStep

LEMMA SpuriousKeeps ==
  ASSUME MinerInv, Spurious
  PROVE  MinerInv'
<1> USE DEF MinerInv, TypeOK
<1>1. /\ pc' \in [Thread -> {"off", "top", "lock", "wait", "mine"}]
      /\ \A t \in Thread : /\ pc'[t] = "off" <=> pc[t] = "off"
                           /\ pc'[t] \in {"top", "mine"} => pc[t] \in {"top", "mine"}
  BY DEF Spurious, Wake, Waiting
<1>2. active' = Cardinality(Alive')
  BY <1>1, SameAlive DEF Spurious
<1> QED
  BY Zenon, <1>1, <1>2 DEF Spurious, threadVars

LEMMA MinerInvHolds == Spec => []MinerInv
<1>1. MinerInv /\ [Next]_vars => MinerInv'
  <2> SUFFICES ASSUME MinerInv, [Next]_vars PROVE MinerInv'
    OBVIOUS
  <2>1. CASE \E n \in Thread : Start(n)
    BY <2>1, StartKeeps
  <2>2. CASE Stop \/ Join
    BY <2>2, StopKeeps, JoinKeeps
  <2>3. CASE TickNewJob \/ TickFound \/ TickAbort \/ TickStale \/ TickRefresh \/ TickAdvance
    BY <2>3, TickKeeps
  <2>4. CASE NewTip
    <3>1. active' = Cardinality(Alive')
      BY <2>4, SameAlive DEF NewTip
    <3> QED
      BY <2>4, <3>1, MinerAssumption DEF NewTip, MinerInv, TypeOK, threadVars
  <2>5. CASE \E t \in Thread : ThreadStep(t)
    BY <2>5, ThreadKeeps
  <2>6. CASE Spurious
    BY <2>6, SpuriousKeeps
  <2>7. CASE UNCHANGED vars
    <3>1. active' = Cardinality(Alive')
      BY <2>7, SameAlive DEF vars
    <3> QED
      BY <2>7, <3>1 DEF vars, threadVars, MinerInv, TypeOK
  <2> QED
    BY <2>1, <2>2, <2>3, <2>4, <2>5, <2>6, <2>7 DEF Next
<1> QED
  BY <1>1, InitMinerInv, PTL DEF Spec

\* However many threads there are: when btc_cpuminer_stop has returned none
\* is left, and cpu->active counts those there are.
THEOREM NoThreadLeftAlways == Spec => []NoThreadLeft
<1>1. MinerInv => NoThreadLeft
  BY DEF MinerInv, NoThreadLeft, Alive
<1> QED
  BY <1>1, MinerInvHolds, PTL

\* However many threads there are: a thread that comes back from a search, or
\* starts, finds its result unset.
THEOREM ResultUnsetAlways == Spec => []ResultUnset
<1>1. MinerInv => ResultUnset
  BY DEF MinerInv, ResultUnset
<1> QED
  BY <1>1, MinerInvHolds, PTL
=============================================================================
