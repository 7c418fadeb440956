--------------------------- MODULE Workers_proofs ---------------------------
(***************************************************************************)
(* The counters of the thread pool are right for every number of threads   *)
(* and every amount of work, so that no thread outlives the pool; and when *)
(* btc_workers_wait returns, all the work has been done, once.             *)
(***************************************************************************)
EXTENDS Workers, FiniteSetTheorems, WellFoundedInduction, TLAPS

Asleep == {t \in Thread : pc[t] \in {"wait", "woken"}}
Running == {t \in Thread : pc[t] # "exit"}

\* The counters count; a thread leaves only once stop is set, and the owner
\* only once no thread is left.
PoolInv ==
    /\ pc \in [Thread -> {"lock", "wait", "woken", "run", "exit"}]
    /\ idle = Cardinality(Asleep)
    /\ threads = Cardinality(Running)
    /\ master = "gone" => Running = {}

\* There are finitely many threads.
LEMMA FiniteThreads ==
  ASSUME NEW S, S \subseteq Thread
  PROVE  IsFiniteSet(S) /\ Cardinality(S) \in Nat
<1>1. IsFiniteSet(Thread)
  BY PoolAssumption, FS_Interval DEF Thread
<1>2. IsFiniteSet(S)
  BY <1>1, FS_Subset
<1> QED
  BY <1>2, FS_CardinalityType

\* Waking threads changes none of the counters.
LEMMA WakeKeeps ==
  ASSUME PoolInv, NEW ts \in SUBSET Waiting, Wake(ts), UNCHANGED <<idle, threads>>,
         master' = "gone" => master = "gone"
  PROVE  PoolInv'
<1>1. pc' \in [Thread -> {"lock", "wait", "woken", "run", "exit"}]
  BY DEF PoolInv, Wake, Waiting
<1>2. Asleep' = Asleep /\ Running' = Running
  BY DEF PoolInv, Wake, Waiting, Asleep, Running
<1> QED
  BY <1>1, <1>2 DEF PoolInv

\* What a thread does with the mutex held: it is counted where it goes.
LEMMA StepKeeps ==
  ASSUME PoolInv, NEW t \in Thread, pc[t] \in {"lock", "woken"}, NEW idl,
         idl = Cardinality(Asleep \ {t}),
         Sleep(t, idl) \/ Quit(t, idl) \/ Take(t, idl),
         master' = "gone" => master = "gone"
  PROVE  PoolInv'
<1>1. t \in Running /\ master' # "gone"
  BY DEF PoolInv, Running
<1>2. /\ IsFiniteSet(Asleep \ {t}) /\ Cardinality(Asleep \ {t}) \in Nat
      /\ IsFiniteSet(Running) /\ Cardinality(Running) \in Nat
  BY FiniteThreads DEF Asleep, Running
<1>3. CASE Sleep(t, idl)
  <2>1. pc' = [pc EXCEPT ![t] = "wait"] /\ idle' = idl + 1 /\ threads' = threads
    BY <1>3 DEF Sleep
  <2>2. Asleep' = (Asleep \ {t}) \cup {t} /\ Running' = Running
    BY <1>1, <2>1 DEF PoolInv, Asleep, Running
  <2>3. Cardinality(Asleep') = Cardinality(Asleep \ {t}) + 1
    BY Zenon, <1>2, <2>2, FS_AddElement
  <2> QED
    BY <1>1, <2>1, <2>2, <2>3 DEF PoolInv
<1>4. CASE Quit(t, idl)
  <2>1. pc' = [pc EXCEPT ![t] = "exit"] /\ idle' = idl /\ threads' = threads - 1
    BY <1>4 DEF Quit
  <2>2. Asleep' = Asleep \ {t} /\ Running' = Running \ {t}
    BY <1>1, <2>1 DEF PoolInv, Asleep, Running
  <2>3. Cardinality(Running') = Cardinality(Running) - 1
    BY Zenon, <1>1, <1>2, <2>2, FS_RemoveElement
  <2> QED
    BY <1>1, <2>1, <2>2, <2>3 DEF PoolInv
<1>5. CASE Take(t, idl)
  <2>1. pc' = [pc EXCEPT ![t] = "run"] /\ idle' = idl /\ threads' = threads
    BY <1>5 DEF Take
  <2>2. Asleep' = Asleep \ {t} /\ Running' = Running
    BY <1>1, <2>1 DEF PoolInv, Asleep, Running
  <2> QED
    BY <1>1, <2>1, <2>2 DEF PoolInv
<1> QED
  BY <1>3, <1>4, <1>5

LEMMA ThreadKeeps ==
  ASSUME PoolInv, NEW t \in Thread, ThreadStep(t)
  PROVE  PoolInv'
<1>1. Roused = "gone" => master = "gone"
  BY DEF Roused
<1>2. IsFiniteSet(Asleep) /\ Cardinality(Asleep) \in Nat
  BY FiniteThreads DEF Asleep
<1>3. CASE Top(t)
  <2>1. Asleep = Asleep \ {t}
    BY <1>3 DEF Top, Asleep
  <2>2. idle = Cardinality(Asleep \ {t})
    BY <2>1 DEF PoolInv
  <2> QED
    BY <1>1, <1>3, <2>2, StepKeeps DEF Top
<1>4. CASE Wakeup(t)
  <2>1. t \in Asleep
    BY <1>4 DEF Wakeup, Asleep
  <2>2. idle - 1 = Cardinality(Asleep \ {t})
    BY Zenon, <1>2, <2>1, FS_RemoveElement DEF PoolInv
  <2> QED
    BY <1>1, <1>4, <2>2, StepKeeps DEF Wakeup
<1>5. CASE Execute(t)
  <2>1. pc' \in [Thread -> {"lock", "wait", "woken", "run", "exit"}]
    BY <1>5 DEF Execute, PoolInv
  <2>2. Asleep' = Asleep /\ Running' = Running
    BY <1>5 DEF Execute, PoolInv, Asleep, Running
  <2> QED
    BY <1>5, <2>1, <2>2 DEF Execute, PoolInv
<1> QED
  BY <1>3, <1>4, <1>5 DEF ThreadStep

LEMMA MasterKeeps ==
  ASSUME PoolInv, MasterStep
  PROVE  PoolInv'
<1>1. Asleep' = Asleep /\ Running' = Running
  BY DEF MasterStep, Wait, Join, Asleep, Running
<1>2. CASE Wait
  BY <1>1, <1>2 DEF Wait, PoolInv
<1>3. CASE Join
  <2>1. IsFiniteSet(Running) /\ Cardinality(Running) \in Nat
    BY FiniteThreads DEF Running
  <2>2. threads = 0 => Running = {}
    BY Zenon, <2>1, FS_EmptySet DEF PoolInv
  <2> QED
    BY <1>1, <1>3, <2>1, <2>2 DEF Join, PoolInv
<1> QED
  BY <1>2, <1>3 DEF MasterStep

LEMMA PoolInvHolds == CheckerSpec => []PoolInv
<1>1. Init => PoolInv
  <2> SUFFICES ASSUME Init PROVE PoolInv
    OBVIOUS
  <2>1. Asleep = {} /\ Running = 1 .. NThreads
    BY DEF Init, Asleep, Running, Thread
  <2>2. Cardinality(Asleep) = 0 /\ Cardinality(Running) = NThreads
    BY <2>1, FS_EmptySet, FS_Interval, PoolAssumption
  <2> QED
    BY <2>2 DEF Init, PoolInv
<1>2. PoolInv /\ [CheckerNext]_vars => PoolInv'
  <2> SUFFICES ASSUME PoolInv, [CheckerNext]_vars PROVE PoolInv'
    OBVIOUS
  <2>1. CASE \E ws \in Batches : Batch(ws, "batched")
    <3>1. PICK ws \in Batches : Batch(ws, "batched")
      BY <2>1
    <3>2. PICK ts \in SUBSET Waiting : Wake(ts)
      BY Zenon, <3>1 DEF Batch, Signal, Broadcast
    <3> QED
      BY <3>1, <3>2, WakeKeeps DEF Batch
  <2>2. CASE Destroy
    BY <2>2, WakeKeeps DEF Destroy, Broadcast
  <2>3. CASE MasterStep
    BY <2>3, MasterKeeps
  <2>4. CASE \E t \in Thread : ThreadStep(t)
    BY <2>4, ThreadKeeps
  <2>5. CASE Spurious
    <3>1. CASE \E t \in Waiting : Wake({t}) /\ UNCHANGED master
      BY <2>5, <3>1, WakeKeeps DEF Spurious
    <3>2. CASE master' = Roused /\ UNCHANGED pc
      <4>1. Asleep' = Asleep /\ Running' = Running
        BY <3>2 DEF Asleep, Running
      <4> QED
        BY <2>5, <3>2, <4>1 DEF Spurious, Roused, PoolInv
    <3> QED
      BY <2>5, <3>1, <3>2 DEF Spurious
  <2>6. CASE UNCHANGED vars
    BY <2>6 DEF vars, PoolInv, Asleep, Running
  <2> QED
    BY <2>1, <2>2, <2>3, <2>4, <2>5, <2>6 DEF CheckerNext
<1> QED
  BY <1>1, <1>2, PTL DEF CheckerSpec

\* For every number of threads: pool->idle is the number of threads that wait
\* for work or are on their way out of the wait.
THEOREM IdleCountsAlways == CheckerSpec => []IdleCounts
<1>1. PoolInv => IdleCounts
  BY DEF PoolInv, IdleCounts, Asleep
<1> QED
  BY <1>1, PoolInvHolds, PTL

\* For every number of threads: when btc_workers_destroy returns, no thread
\* is left that could touch the freed pool.
THEOREM NoLateWorkAlways == CheckerSpec => []NoLateWork
<1>1. PoolInv => NoLateWork
  BY DEF PoolInv, NoLateWork, Running
<1> QED
  BY <1>1, PoolInvHolds, PTL

-----------------------------------------------------------------------------
(* The work itself.                                                        *)

\* A set that holds 0, and n + 1 whenever it holds n, holds all naturals.
LEMMA Naturals ==
  ASSUME NEW S, 0 \in S, \A n \in Nat : n \in S => n + 1 \in S
  PROVE  \A n \in Nat : n \in S
<1> SUFFICES ASSUME Nat \ S # {} PROVE FALSE
  BY Zenon
<1>1. PICK x \in Nat \ S : \A y \in Nat \ S : ~ (<<y, x>> \in OpToRel(<, Nat))
  BY Zenon, NatLessThanWellFounded, WFMin
<1>2. x \in Nat /\ x # 0 /\ x - 1 \in Nat
  <2>1. x \in Nat /\ x \notin S
    BY Zenon, <1>1
  <2> QED
    BY <2>1
<1>3. \A y \in Nat : y < x => <<y, x>> \in OpToRel(<, Nat)
  BY Zenon, <1>1 DEF OpToRel
<1>4. x - 1 \in S
  <2>1. x - 1 < x
    BY <1>2
  <2> QED
    BY Zenon, <1>1, <1>2, <1>3, <2>1
<1>5. (x - 1) + 1 = x
  OBVIOUS
<1> QED
  BY Zenon, <1>1, <1>2, <1>4, <1>5

\* Following work->next from the head of the list visits it in order.
LEMMA ItemListed ==
  ASSUME NEW q, Listed(q), NEW n \in 0 .. Len(q)
  PROVE  Item(n) = IF n < Len(q) THEN q[n + 1] ELSE Null
<1> DEFINE at(i) == IF i < Len(q) THEN q[i + 1] ELSE Null
           step(f) == [i \in 0 .. n |-> IF i = 0 THEN queue.head
                                       ELSE IF f[i - 1] = Null THEN Null ELSE next[f[i - 1]]]
           g == [i \in 0 .. n |-> at(i)]
           walk == CHOOSE f : f = step(f)
<1>1. q \in Seq(Work) /\ Len(q) \in Nat /\ n \in Nat
  BY DEF Listed
<1>2. at(0) = queue.head
  BY <1>1 DEF Listed
<1>3. ASSUME NEW i \in 1 .. n
      PROVE  at(i) = IF at(i - 1) = Null THEN Null ELSE next[at(i - 1)]
  <2>1. i - 1 < Len(q) /\ i \in 1 .. Len(q) /\ i - 1 + 1 = i
    BY <1>1
  <2>2. at(i - 1) = q[i] /\ q[i] \in Work /\ q[i] # Null
    BY <1>1, <2>1, WorkAssumption
  <2>3. next[q[i]] = IF i = Len(q) THEN Null ELSE q[i + 1]
    BY <2>1 DEF Listed
  <2>4. at(i) = IF i = Len(q) THEN Null ELSE q[i + 1]
    BY <1>1, <2>1
  <2> QED
    BY Zenon, <2>2, <2>3, <2>4
<1>4. g = step(g)
  <2>1. \A i \in 0 .. n : i = 0 \/ (i \in 1 .. n /\ i - 1 \in 0 .. n)
    BY <1>1
  <2> HIDE DEF at
  <2> QED
    BY Zenon, <1>2, <1>3, <2>1
<1>5. walk = step(walk)
  BY Zenon, <1>4
<1>6. \A i \in Nat : i \in {j \in Nat : j <= n => walk[j] = at(j)}
  <2> DEFINE S == {j \in Nat : j <= n => walk[j] = at(j)}
  <2> HIDE DEF walk, at
  <2>1. 0 \in S
    <3>1. 0 \in 0 .. n
      BY <1>1
    <3>2. walk[0] = queue.head
      BY Zenon, <1>5, <3>1
    <3> QED
      BY <1>2, <3>2
  <2>2. ASSUME NEW i \in Nat, i \in S PROVE i + 1 \in S
    <3>1. CASE i + 1 <= n
      <4>1. /\ i + 1 \in Nat /\ i + 1 \in 0 .. n /\ i + 1 \in 1 .. n /\ i + 1 # 0
            /\ (i + 1) - 1 = i /\ walk[i] = at(i)
        BY <1>1, <2>2, <3>1
      <4>2. walk[i + 1] = IF walk[i] = Null THEN Null ELSE next[walk[i]]
        BY Zenon, <1>5, <4>1
      <4>3. at(i + 1) = IF at(i) = Null THEN Null ELSE next[at(i)]
        BY Zenon, <1>3, <4>1
      <4> QED
        BY Zenon, <4>1, <4>2, <4>3
    <3>2. CASE ~(i + 1 <= n)
      BY <3>2
    <3> QED
      BY <3>1, <3>2
  <2> HIDE DEF S
  <2>3. \A i \in Nat : i \in S
    BY Zenon, <2>1, <2>2, Naturals
  <2> QED
    BY <2>3 DEF S
<1>7. Item(n) = walk[n]
  BY Zenon DEF Item
<1> QED
  BY <1>1, <1>6, <1>7

\* btc_workers_slice takes at least one work item, and no more than there are.
LEMMA SliceBounded ==
  ASSUME NEW idl \in Nat, threads \in Nat, queue.length \in Nat, queue.length > 0
  PROVE  SliceLength(idl) \in 1 .. queue.length
<1> DEFINE d == threads + idl + 1
           fair == queue.length \div d
<1>1. d \in Nat \ {0}
  OBVIOUS
<1> HIDE DEF d
<1>2. fair \in Nat /\ fair <= queue.length
  BY <1>1
<1>3. fair = queue.length \div (threads + idl + 1)
  BY DEF d
<1> HIDE DEF fair
<1> QED
  BY <1>2, <1>3, PoolAssumption DEF SliceLength

\* A sequence without repetition has as many members as places.
LEMMA DistinctCount ==
  ASSUME NEW s \in Seq(Work), \A i, j \in 1 .. Len(s) : s[i] = s[j] => i = j
  PROVE  Cardinality({w \in Work : \E i \in 1 .. Len(s) : s[i] = w}) = Len(s)
<1> DEFINE R == {w \in Work : \E i \in 1 .. Len(s) : s[i] = w}
<1>1. Len(s) \in Nat /\ DOMAIN s = 1 .. Len(s) /\ s = [i \in 1 .. Len(s) |-> s[i]]
  OBVIOUS
<1>2. \A i \in 1 .. Len(s) : s[i] \in R
  OBVIOUS
<1>3. s \in [1 .. Len(s) -> R]
  BY Zenon, <1>1, <1>2
<1>4. s \in Bijection(1 .. Len(s), R)
  BY Zenon, <1>1, <1>3 DEF Bijection, Injection, Surjection, IsInjective
<1>5. ExistsBijection(1 .. Len(s), R)
  BY Zenon, <1>4 DEF ExistsBijection
<1> QED
  BY Zenon, <1>1, <1>5, FS_CountingElements

\* Threads are woken, or the owner goes on: no work moves.
LEMMA NoWorkMoves ==
  ASSUME PoolInv, JobsInv, UNCHANGED <<queue, next, left, jobs, length, submitted, done>>,
         \A t \in Thread : pc'[t] = pc[t] \/ (pc[t] = "wait" /\ pc'[t] = "woken"),
         stop' <=> master' \in {"join", "joining", "gone"}, master' = "free" => left = 0
  PROVE  JobsInv'
<1>1. PICK q \in Seq(Work) : Listed(q) /\ \E owner \in [Work -> -1 .. NThreads] : Owned(q, owner)
  BY Zenon DEF JobsInv
<1>2. PICK owner \in [Work -> -1 .. NThreads] : Owned(q, owner)
  BY Zenon, <1>1
<1>3. \A t \in Thread : /\ pc'[t] \in {"lock", "run"} <=> pc[t] \in {"lock", "run"}
                        /\ pc'[t] = "run" <=> pc[t] = "run"
  BY Zenon
<1>4. Listed(q)'
  BY Zenon, <1>1 DEF Listed
<1>5. Owned(q, owner)'
  <2>1. ASSUME NEW t \in Thread
        PROVE  /\ pc'[t] \in {"lock", "run"} => length'[t] = Cardinality({w \in Work : owner[w] = t})
               /\ pc'[t] \notin {"lock", "run"} => \A w \in Work : owner[w] # t
               /\ \A i \in 1 .. Len(jobs'[t]) : owner[jobs'[t][i]] = t
    BY Zenon, <1>2, <1>3 DEF Owned
  <2>2. /\ \A w \in Work : owner[w] = 0 <=> \E i \in 1 .. Len(q) : q[i] = w
        /\ \A w \in Work : owner[w] # -1 => w \in submitted'
        /\ left' = Cardinality({w \in Work : owner[w] # -1})
    BY Zenon, <1>2 DEF Owned
  <2>3. ASSUME NEW w \in Work
        PROVE  done'[w] = IF \/ w \notin submitted' \/ owner[w] = 0
                             \/ \E t \in Thread : \E i \in 1 .. Len(jobs'[t]) : jobs'[t][i] = w
                          THEN 0 ELSE 1
    BY <1>2 DEF Owned
  <2> QED
    BY Zenon, <2>1, <2>2, <2>3 DEF Owned
<1> QED
  BY Zenon, <1>3, <1>4, <1>5 DEF JobsInv

\* Once every item is counted off, the queue is empty, and no thread has work.
LEMMA NothingLeft ==
  ASSUME JobsInv, left = 0, NEW q \in Seq(Work), Listed(q),
         NEW owner \in [Work -> -1 .. NThreads], Owned(q, owner)
  PROVE  /\ \A w \in Work : owner[w] = -1
         /\ q = << >> /\ queue.head = Null /\ queue.length = 0
         /\ \A t \in Thread : Len(jobs[t]) = 0
<1>1. \A w \in Work : owner[w] = -1
  <2> DEFINE S == {w \in Work : owner[w] # -1}
  <2>1. IsFiniteSet(S)
    BY WorkAssumption, FS_Subset
  <2>2. Cardinality(S) = 0
    BY Zenon DEF Owned
  <2>3. S = {}
    BY Zenon, <2>1, <2>2, FS_EmptySet
  <2> QED
    BY Zenon, <2>3
<1>2. q = << >> /\ queue.head = Null /\ queue.length = 0
  <2>1. ASSUME Len(q) > 0 PROVE FALSE
    <3>1. 1 \in 1 .. Len(q) /\ q[1] \in Work
      BY <2>1
    <3>2. owner[q[1]] = 0
      BY Zenon, <3>1 DEF Owned
    <3> QED
      BY <1>1, <3>1, <3>2
  <2>2. q = << >>
    BY <2>1
  <2> QED
    BY <2>2 DEF Listed
<1>3. \A t \in Thread : Len(jobs[t]) = 0
  <2> SUFFICES ASSUME NEW t \in Thread, Len(jobs[t]) # 0 PROVE FALSE
    OBVIOUS
  <2>1. jobs[t] \in Seq(Work)
    BY Zenon DEF JobsInv
  <2>2. 1 \in 1 .. Len(jobs[t]) /\ jobs[t][1] \in Work
    BY <2>1
  <2>3. owner[jobs[t][1]] = t
    BY Zenon, <2>2 DEF Owned
  <2> QED
    BY <1>1, <2>2, <2>3 DEF Thread
<1> QED
  BY Zenon, <1>1, <1>2, <1>3

\* btc_workers_batch: btc_workers_wait has returned, so the queue is empty.
LEMMA BatchKeepsJobs ==
  ASSUME PoolInv, JobsInv, NEW ws \in Batches, Batch(ws, "batched")
  PROVE  JobsInv'
<1> DEFINE owner1 == [w \in Work |-> IF \E i \in 1 .. Len(ws) : ws[i] = w THEN 0 ELSE -1]
<1>1. PICK q \in Seq(Work) : Listed(q) /\ \E owner \in [Work -> -1 .. NThreads] : Owned(q, owner)
  BY Zenon DEF JobsInv
<1>2. PICK owner \in [Work -> -1 .. NThreads] : Owned(q, owner)
  BY Zenon, <1>1
<1>t. \A u \in Thread :
        /\ pc[u] \in {"lock", "run"} => length[u] = Cardinality({w \in Work : owner[w] = u})
        /\ pc[u] \notin {"lock", "run"} => \A w \in Work : owner[w] # u
        /\ \A i \in 1 .. Len(jobs[u]) : owner[jobs[u][i]] = u
  BY Zenon, <1>2 DEF Owned
<1>3. left = 0 /\ ~stop
  BY DEF Batch, JobsInv
<1>4. /\ \A w \in Work : owner[w] = -1
      /\ q = << >> /\ queue.head = Null /\ queue.length = 0
      /\ \A t \in Thread : Len(jobs[t]) = 0
  BY Zenon, <1>1, <1>2, <1>3, NothingLeft
<1>5. q = << >> /\ queue.head = Null /\ queue.length = 0
  BY Zenon, <1>4
<1>6. \A t \in Thread : Len(jobs[t]) = 0
  BY Zenon, <1>4
<1>7. /\ ws \in Seq(Work) /\ Len(ws) \in Nat /\ Len(ws) > 0 /\ DOMAIN ws = 1 .. Len(ws)
      /\ \A i \in 1 .. Len(ws) : ws[i] \in Work \ submitted
      /\ \A i, j \in 1 .. Len(ws) : ws[i] = ws[j] => i = j
  <2>1. /\ ws \in Offered /\ Len(ws) > 0
        /\ \A i \in 1 .. Len(ws) : ws[i] \notin submitted
        /\ \A i, j \in 1 .. Len(ws) : ws[i] = ws[j] => i = j
    BY Zenon DEF Batches
  <2>2. ws \in Seq(Work)
    BY Zenon, <2>1, WorkAssumption
  <2>3. Len(ws) \in Nat /\ DOMAIN ws = 1 .. Len(ws) /\ \A i \in 1 .. Len(ws) : ws[i] \in Work
    BY <2>2
  <2> QED
    BY Zenon, <2>1, <2>2, <2>3
<1>8. /\ queue' = [head |-> Head(ws), tail |-> ws[Len(ws)], length |-> queue.length + Len(ws)]
      /\ next' = Linked(ws) /\ left' = left + Len(ws)
      /\ submitted' = submitted \cup Range(ws) /\ master' = "batched"
      /\ UNCHANGED <<stop, jobs, length, done>>
  BY Zenon, <1>5 DEF Batch, Concat
<1>9. \A t \in Thread : pc'[t] = pc[t] \/ (pc[t] = "wait" /\ pc'[t] = "woken")
  <2>1. PICK ts \in SUBSET Waiting : Wake(ts)
    BY Zenon DEF Batch, Signal, Broadcast
  <2> QED
    BY <2>1 DEF Wake, Waiting
<1>10. \A t \in Thread : /\ pc'[t] \in {"lock", "run"} <=> pc[t] \in {"lock", "run"}
                         /\ pc'[t] = "run" <=> pc[t] = "run"
  BY Zenon, <1>9
<1>11. Range(ws) = {w \in Work : \E i \in 1 .. Len(ws) : ws[i] = w}
  <2>1. DOMAIN ws = 1 .. Len(ws) /\ \A i \in 1 .. Len(ws) : ws[i] \in Work
    BY Zenon, <1>7
  <2>2. \A x : x \in Range(ws) <=> \E i \in 1 .. Len(ws) : ws[i] = x
    BY Zenon, <2>1 DEF Range
  <2> QED
    BY Zenon, <2>1, <2>2
<1>12. /\ \A i \in 1 .. Len(ws) - 1 : next'[ws[i]] = ws[i + 1]
       /\ \A w \in Work : w \notin Range(ws) \/ w = ws[Len(ws)] => next'[w] = next[w]
  <2>1. ASSUME NEW i \in 1 .. Len(ws) - 1 PROVE next'[ws[i]] = ws[i + 1]
    <3>1. i \in 1 .. Len(ws) /\ ws[i] \in Work /\ \E j \in 1 .. Len(ws) - 1 : ws[j] = ws[i]
      BY <1>7
    <3>2. \A j \in 1 .. Len(ws) - 1 : ws[j] = ws[i] => j = i
      BY <1>7
    <3>3. (CHOOSE j \in 1 .. Len(ws) - 1 : ws[j] = ws[i]) = i
      BY <3>1, <3>2
    <3> QED
      BY Zenon, <1>8, <3>1, <3>3 DEF Linked
  <2>2. ASSUME NEW w \in Work, w \notin Range(ws) \/ w = ws[Len(ws)] PROVE next'[w] = next[w]
    <3>1. ~ \E i \in 1 .. Len(ws) - 1 : ws[i] = w
      BY <1>7, <1>11, <2>2
    <3> QED
      BY Zenon, <1>8, <3>1 DEF Linked
  <2> QED
    BY <2>1, <2>2
<1>13. Listed(ws)'
  <2>1. queue'.head = ws[1] /\ queue'.length = Len(ws) /\ ws # << >>
    BY <1>5, <1>7, <1>8
  <2>2. \A i \in 1 .. Len(ws) : next'[ws[i]] = IF i = Len(ws) THEN Null ELSE ws[i + 1]
    <3>1. \A n \in Nat : \A i \in 1 .. n : i = n \/ i \in 1 .. n - 1
      OBVIOUS
    <3>2. \A w \in Work \ submitted : next[w] = Null
      BY Zenon DEF JobsInv
    <3> QED
      <4>1. ASSUME NEW i \in 1 .. Len(ws), i = Len(ws) PROVE next'[ws[i]] = Null
        BY Zenon, <1>7, <1>12, <3>2, <4>1
      <4> QED
        BY Zenon, <1>7, <1>12, <3>1, <4>1
  <2> QED
    BY Zenon, <1>7, <2>1, <2>2 DEF Listed
<1>14. owner1 \in [Work -> -1 .. NThreads]
  <2>1. 0 \in -1 .. NThreads /\ -1 \in -1 .. NThreads /\ 0 # -1
    BY PoolAssumption
  <2> QED
    BY Zenon, <2>1
<1>15. Owned(ws, owner1)'
  <2>1. \A w \in Work : /\ owner1[w] = 0 <=> w \in Range(ws)
                        /\ owner1[w] # -1 <=> w \in Range(ws)
                        /\ \A t \in Thread : owner1[w] # t /\ owner[w] # t
    BY <1>4, <1>11, PoolAssumption DEF Thread
  <2> HIDE DEF owner1
  <2>2. left' = Cardinality({w \in Work : owner1[w] # -1})
    <3>1. {w \in Work : owner1[w] # -1} = {w \in Work : \E i \in 1 .. Len(ws) : ws[i] = w}
      BY Zenon, <1>11, <2>1
    <3>2. Cardinality({w \in Work : \E i \in 1 .. Len(ws) : ws[i] = w}) = Len(ws)
      BY Zenon, <1>7, DistinctCount
    <3>3. left' = Len(ws)
      BY <1>3, <1>7, <1>8
    <3> QED
      BY Zenon, <3>1, <3>2, <3>3
  <2>3. \A t \in Thread : {w \in Work : owner1[w] = t} = {w \in Work : owner[w] = t}
    BY Zenon, <2>1
  <2>4. ASSUME NEW t \in Thread
        PROVE  /\ pc'[t] \in {"lock", "run"} => length'[t] = Cardinality({w \in Work : owner1[w] = t})
               /\ pc'[t] \notin {"lock", "run"} => \A w \in Work : owner1[w] # t
    <3>1. /\ pc[t] \in {"lock", "run"} => length[t] = Cardinality({w \in Work : owner[w] = t})
          /\ pc[t] \notin {"lock", "run"} => \A w \in Work : owner[w] # t
      BY Zenon, <1>t
    <3>2. length' = length /\ (pc'[t] \in {"lock", "run"} <=> pc[t] \in {"lock", "run"})
      BY Zenon, <1>8, <1>10
    <3>3. {w \in Work : owner1[w] = t} = {w \in Work : owner[w] = t}
      BY Zenon, <2>3
    <3>4. \A w \in Work : owner1[w] = t => owner[w] = t
      BY Zenon, <3>3
    <3> QED
      BY Zenon, <3>1, <3>2, <3>3, <3>4
  <2>5. \A t \in Thread : \A i \in 1 .. Len(jobs'[t]) : FALSE
    BY <1>6, <1>8
  <2>6. ASSUME NEW w \in Work
        PROVE  done'[w] = IF w \notin submitted' \/ owner1[w] = 0 THEN 0 ELSE 1
    <3>1. done[w] = IF w \notin submitted THEN 0 ELSE 1
      <4>1. owner[w] # 0
        BY <1>4
      <4>2. ~ \E t \in Thread : \E i \in 1 .. Len(jobs[t]) : jobs[t][i] = w
        BY <1>6
      <4> QED
        BY Zenon, <1>2, <4>1, <4>2 DEF Owned
    <3>2. w \in Range(ws) => w \notin submitted
      BY <1>7, <1>11
    <3> QED
      BY Zenon, <1>8, <2>1, <3>1, <3>2
  <2>7. \A w \in Work : owner1[w] # -1 => w \in submitted'
    BY Zenon, <1>8, <2>1
  <2>8. \A w \in Work : owner1[w] = 0 <=> \E i \in 1 .. Len(ws) : ws[i] = w
    BY Zenon, <1>11, <2>1
  <2> QED
    BY Zenon, <2>2, <2>4, <2>5, <2>6, <2>7, <2>8 DEF Owned
<1>16. submitted' \subseteq Work /\ \A w \in Work \ submitted' : next'[w] = Null
  BY Zenon, <1>8, <1>11, <1>12 DEF JobsInv
<1>17. next' = [w \in Work |-> next'[w]]
  BY Zenon, <1>8 DEF Linked
<1> QED
  BY Zenon, <1>3, <1>7, <1>8, <1>10, <1>13, <1>14, <1>15, <1>16, <1>17 DEF JobsInv

Release(owner, t) == [w \in Work |-> IF owner[w] = t THEN -1 ELSE owner[w]]

\* own differs from owner in that thread t owns nothing.
Freed(own, owner, t) ==
    /\ own \in [Work -> -1 .. NThreads]
    /\ \A w \in Work : /\ own[w] = 0 <=> owner[w] = 0
                       /\ own[w] # t
                       /\ \A u \in Thread \ {t} : own[w] = u <=> owner[w] = u
                       /\ own[w] # -1 => owner[w] # -1
    /\ Cardinality({w \in Work : own[w] # -1}) = left - Cardinality({w \in Work : owner[w] = t})
    /\ \A u \in Thread \ {t} : {w \in Work : own[w] = u} = {w \in Work : owner[w] = u}

\* A thread counts off what it executed: it owns nothing any more.
LEMMA Released ==
  ASSUME NEW t \in Thread, NEW q, NEW owner \in [Work -> -1 .. NThreads], Owned(q, owner)
  PROVE  Freed(Release(owner, t), owner, t)
<1> DEFINE own == Release(owner, t)
<1>1. t \in -1 .. NThreads /\ t # -1 /\ t # 0 /\ -1 \in -1 .. NThreads /\ \A u \in Thread : u # -1 /\ u # 0
  BY PoolAssumption DEF Thread
<1>2. own \in [Work -> -1 .. NThreads]
  BY Zenon, <1>1 DEF Release
<1>3. \A w \in Work : /\ own[w] = 0 <=> owner[w] = 0
                      /\ own[w] # t
                      /\ \A u \in Thread \ {t} : own[w] = u <=> owner[w] = u
                      /\ own[w] # -1 <=> owner[w] # -1 /\ owner[w] # t
  BY <1>1 DEF Release
<1>4. Cardinality({w \in Work : own[w] # -1}) = left - Cardinality({w \in Work : owner[w] = t})
  <2> DEFINE S == {w \in Work : owner[w] # -1}
             T == {w \in Work : owner[w] = t}
  <2>1. IsFiniteSet(S)
    BY WorkAssumption, FS_Subset
  <2>2. S \cap T = T /\ S \ T = {w \in Work : own[w] # -1}
    BY Zenon, <1>1, <1>3
  <2>3. Cardinality(S \ T) = Cardinality(S) - Cardinality(S \cap T)
    BY Zenon, <2>1, FS_Difference
  <2>4. left = Cardinality(S)
    BY Zenon DEF Owned
  <2> QED
    BY Zenon, <2>2, <2>3, <2>4
<1>5. \A u \in Thread \ {t} : {w \in Work : own[w] = u} = {w \in Work : owner[w] = u}
  BY Zenon, <1>3
<1> QED
  BY Zenon, <1>2, <1>3, <1>4, <1>5 DEF Freed

\* The queue after a slice, and the jobs that were sliced off.
LEMMA Sliced ==
  ASSUME JobsInv, NEW q, Listed(q), NEW n \in 1 .. Len(q), Slice(n)
  PROVE  /\ Items(n) = SubSeq(q, 1, n)
         /\ Listed(SubSeq(q, n + 1, Len(q)))'
         /\ next' = [w \in Work |-> next'[w]]
         /\ \A w \in Work : next[w] = Null => next'[w] = Null
<1> DEFINE a == SubSeq(q, 1, n)
           b == SubSeq(q, n + 1, Len(q))
<1>1. /\ q \in Seq(Work) /\ Len(q) \in Nat /\ n \in Nat /\ n <= Len(q) /\ n > 0
      /\ \A i, j \in 1 .. Len(q) : q[i] = q[j] => i = j
  BY DEF Listed
<1>2. a \in Seq(Work) /\ Len(a) = n /\ \A i \in 1 .. n : a[i] = q[i]
  BY <1>1
<1>3. /\ b \in Seq(Work) /\ Len(b) = Len(q) - n
      /\ \A i \in 1 .. Len(q) - n : b[i] = q[n + i]
  BY <1>1
<1> HIDE DEF a, b
<1>4. Items(n) = a
  <2>1. \A i \in 1 .. n : i - 1 \in 0 .. Len(q) /\ i - 1 < Len(q) /\ (i - 1) + 1 = i
    BY <1>1
  <2>2. \A i \in 1 .. n : Item(i - 1) = q[i]
    BY Zenon, <2>1, ItemListed
  <2>3. Items(n) = [i \in 1 .. n |-> q[i]]
    BY Zenon, <2>2 DEF Items
  <2>4. a = [i \in 1 .. n |-> a[i]]
    BY <1>1, <1>2
  <2> QED
    BY Zenon, <1>2, <2>3, <2>4
<1>5. Item(n) = IF n < Len(q) THEN q[n + 1] ELSE Null
  BY <1>1, ItemListed
<1>6. Range(Items(n)) = {q[i] : i \in 1 .. n}
  BY <1>1, <1>2, <1>4 DEF Range
<1>7. /\ queue'.head = Item(n) /\ queue'.length = queue.length - n
      /\ next' = [w \in Work |-> IF w \in Range(Items(n)) THEN Null ELSE next[w]]
  BY DEF Slice
<1>8. \A i \in 1 .. Len(b) : next'[b[i]] = IF i = Len(b) THEN Null ELSE b[i + 1]
  <2> SUFFICES ASSUME NEW i \in 1 .. Len(b)
               PROVE  next'[b[i]] = IF i = Len(b) THEN Null ELSE b[i + 1]
    OBVIOUS
  <2>1. /\ n + i \in 1 .. Len(q) /\ b[i] = q[n + i] /\ b[i] \in Work
        /\ \A k \in 1 .. n : k \in 1 .. Len(q) /\ k # n + i
        /\ i = Len(b) <=> n + i = Len(q)
    BY <1>1, <1>3
  <2>2. b[i] \notin Range(Items(n))
    BY Zenon, <1>1, <1>6, <2>1
  <2>3. next'[b[i]] = next[q[n + i]]
    BY Zenon, <1>7, <2>1, <2>2
  <2>4. next[q[n + i]] = IF n + i = Len(q) THEN Null ELSE q[n + i + 1]
    BY Zenon, <2>1 DEF Listed
  <2>5. i # Len(b) => b[i + 1] = q[n + i + 1]
    <3>1. \A l \in Int : \A k \in 1 .. l : k # l => k + 1 \in 1 .. l
      OBVIOUS
    <3>2. n + (i + 1) = n + i + 1 /\ Len(q) - n \in Int
      BY <1>1
    <3>3. i # Len(b) => b[i + 1] = q[n + (i + 1)]
      BY Zenon, <1>3, <3>1, <3>2
    <3> QED
      BY <3>2, <3>3
  <2> QED
    BY Zenon, <2>1, <2>3, <2>4, <2>5
<1>9. ASSUME NEW i \in 1 .. Len(b), NEW j \in 1 .. Len(b), b[i] = b[j] PROVE i = j
  <2>1. \A k \in 1 .. Len(b) : n + k \in 1 .. Len(q) /\ b[k] = q[n + k]
    BY <1>1, <1>3
  <2>2. n + i = n + j
    BY Zenon, <1>1, <1>9, <2>1
  <2> QED
    BY <1>1, <1>3, <2>2
<1>10. queue'.head = IF b = << >> THEN Null ELSE b[1]
  <2>1. CASE n < Len(q)
    BY <1>1, <1>3, <1>5, <1>7, <2>1
  <2>2. CASE n = Len(q)
    BY <1>1, <1>3, <1>5, <1>7, <2>2
  <2> QED
    BY <1>1, <2>1, <2>2
<1>11. queue'.length = Len(b)
  BY <1>1, <1>3, <1>7 DEF Listed
<1>12. Listed(b)'
  BY Zenon, <1>3, <1>8, <1>9, <1>10, <1>11 DEF Listed
<1>13. /\ next' = [w \in Work |-> next'[w]]
       /\ \A w \in Work : next[w] = Null => next'[w] = Null
  BY Zenon, <1>7
<1> QED
  BY Zenon, <1>4, <1>12, <1>13 DEF a, b

\* A thread with the mutex held counts off its work and sleeps, quits or takes more.
LEMMA TurnKeepsJobs ==
  ASSUME PoolInv, JobsInv, NEW t \in Thread, pc[t] \in {"lock", "woken"}, NEW idl \in Nat,
         Sleep(t, idl) \/ Quit(t, idl) \/ Take(t, idl),
         left' = left - (IF pc[t] = "lock" THEN length[t] ELSE 0),
         UNCHANGED <<stop, submitted, done>>,
         stop <=> master' \in {"join", "joining", "gone"}, master' = "free" => master = "free"
  PROVE  JobsInv'
<1>1. PICK q \in Seq(Work) : Listed(q) /\ \E owner \in [Work -> -1 .. NThreads] : Owned(q, owner)
  BY Zenon DEF JobsInv
<1>2. PICK owner \in [Work -> -1 .. NThreads] : Owned(q, owner)
  BY Zenon, <1>1
<1>t. \A u \in Thread :
        /\ pc[u] \in {"lock", "run"} => length[u] = Cardinality({w \in Work : owner[w] = u})
        /\ pc[u] \notin {"lock", "run"} => \A w \in Work : owner[w] # u
        /\ \A i \in 1 .. Len(jobs[u]) : owner[jobs[u][i]] = u
  BY Zenon, <1>2 DEF Owned
<1> DEFINE mine == {w \in Work : owner[w] = t}
           own == Release(owner, t)
           open == {w \in Work : own[w] # -1}
<1>3. jobs[t] = << >> /\ pc \in [Thread -> {"lock", "wait", "woken", "run", "exit"}]
  BY Zenon DEF JobsInv, PoolInv
<1>4. /\ own \in [Work -> -1 .. NThreads]
      /\ \A w \in Work : /\ own[w] = 0 <=> owner[w] = 0
                         /\ own[w] # t
                         /\ \A u \in Thread \ {t} : own[w] = u <=> owner[w] = u
                         /\ own[w] # -1 => owner[w] # -1
      /\ Cardinality(open) = left - Cardinality(mine)
      /\ \A u \in Thread \ {t} : {w \in Work : own[w] = u} = {w \in Work : owner[w] = u}
  <2>1. Freed(own, owner, t)
    BY Zenon, <1>2, Released
  <2> HIDE DEF own
  <2> QED
    BY Zenon, <2>1 DEF Freed
<1>5. left' = Cardinality(open)
  <2>1. CASE pc[t] = "lock"
    <3>1. length[t] = Cardinality(mine)
      BY Zenon, <1>t, <2>1
    <3> QED
      BY Zenon, <1>4, <2>1, <3>1
  <2>2. CASE pc[t] = "woken"
    <3>0. pc[t] \notin {"lock", "run"}
      BY Zenon, <2>2
    <3>1. mine = {}
      BY Zenon, <1>t, <3>0
    <3>2. Cardinality(mine) = 0
      BY Zenon, <3>1, FS_EmptySet
    <3> QED
      BY Zenon, <1>4, <2>2, <3>2
  <2> QED
    BY <2>1, <2>2
<1>6. master' = "free" => left' = 0
  <2>1. IsFiniteSet(open) /\ IsFiniteSet(mine)
    BY Zenon, WorkAssumption, FS_Subset
  <2>2. Cardinality(open) \in Nat /\ Cardinality(mine) \in Nat
    BY Zenon, <2>1, FS_CardinalityType
  <2>3. master' = "free" => left = 0
    BY Zenon DEF JobsInv
  <2> HIDE DEF open, mine
  <2> QED
    BY <1>4, <1>5, <2>2, <2>3
<1> HIDE DEF own
<1>7. /\ jobs \in [Thread -> Seq(Work)] /\ length \in [Thread -> Nat]
      /\ \A u \in Thread : pc[u] = "run" <=> jobs[u] # << >>
      /\ \A u \in Thread : \A i, j \in 1 .. Len(jobs[u]) : jobs[u][i] = jobs[u][j] => i = j
  BY Zenon DEF JobsInv
<1>8. /\ \A w \in Work : owner[w] = 0 <=> \E i \in 1 .. Len(q) : q[i] = w
      /\ \A w \in Work : owner[w] # -1 => w \in submitted
  BY Zenon, <1>2 DEF Owned
<1>9. ASSUME NEW u \in Thread \ {t}, pc'[u] = pc[u], length'[u] = length[u], jobs'[u] = jobs[u]
      PROVE  /\ pc'[u] \in {"lock", "run"} => length'[u] = Cardinality({w \in Work : own[w] = u})
             /\ pc'[u] \notin {"lock", "run"} => \A w \in Work : own[w] # u
             /\ \A i \in 1 .. Len(jobs'[u]) : own[jobs'[u][i]] = u
  <2>1. \A i \in 1 .. Len(jobs[u]) : jobs[u][i] \in Work /\ owner[jobs[u][i]] = u
    <3>1. jobs[u] \in Seq(Work)
      BY Zenon, <1>7
    <3>2. \A i \in 1 .. Len(jobs[u]) : jobs[u][i] \in Work
      BY <3>1
    <3> QED
      BY Zenon, <1>t, <3>2
  <2>2. /\ pc[u] \in {"lock", "run"} => length[u] = Cardinality({w \in Work : owner[w] = u})
        /\ pc[u] \notin {"lock", "run"} => \A w \in Work : owner[w] # u
    BY Zenon, <1>t
  <2>3. /\ {w \in Work : own[w] = u} = {w \in Work : owner[w] = u}
        /\ \A w \in Work : own[w] = u <=> owner[w] = u
    BY Zenon, <1>4
  <2>4. \A i \in 1 .. Len(jobs'[u]) : own[jobs'[u][i]] = u
    BY Zenon, <1>9, <2>1, <2>3
  <2>5. /\ pc'[u] \in {"lock", "run"} => length'[u] = Cardinality({w \in Work : own[w] = u})
        /\ pc'[u] \notin {"lock", "run"} => \A w \in Work : own[w] # u
    BY Zenon, <1>9, <2>2, <2>3
  <2> QED
    BY Zenon, <2>4, <2>5
<1>10. \A w \in Work : done[w] =
            IF \/ w \notin submitted \/ owner[w] = 0
               \/ \E u \in Thread : \E i \in 1 .. Len(jobs[u]) : jobs[u][i] = w
            THEN 0 ELSE 1
  BY Zenon, <1>2 DEF Owned
<1>11. CASE Sleep(t, idl) \/ Quit(t, idl)
  <2>1. /\ UNCHANGED <<queue, next, jobs, length>>
        /\ pc'[t] \notin {"lock", "run"} /\ \A u \in Thread \ {t} : pc'[u] = pc[u]
    BY <1>3, <1>11 DEF Sleep, Quit
  <2>2. Listed(q)'
    BY Zenon, <1>1, <2>1 DEF Listed
  <2>3. ASSUME NEW u \in Thread
        PROVE  /\ pc'[u] \in {"lock", "run"} => length'[u] = Cardinality({w \in Work : own[w] = u})
               /\ pc'[u] \notin {"lock", "run"} => \A w \in Work : own[w] # u
               /\ \A i \in 1 .. Len(jobs'[u]) : own[jobs'[u][i]] = u
    <3>1. CASE u = t
      BY <1>3, <1>4, <2>1, <3>1
    <3>2. CASE u # t
      BY Zenon, <1>9, <2>1, <3>2
    <3> QED
      BY <3>1, <3>2
  <2>4. ASSUME NEW w \in Work
        PROVE  done'[w] = IF \/ w \notin submitted' \/ own[w] = 0
                             \/ \E u \in Thread : \E i \in 1 .. Len(jobs'[u]) : jobs'[u][i] = w
                          THEN 0 ELSE 1
    <3>1. own[w] = 0 <=> owner[w] = 0
      BY Zenon, <1>4
    <3>2. done' = done /\ submitted' = submitted /\ jobs' = jobs
      BY Zenon, <2>1
    <3> QED
      BY Zenon, <1>10, <3>1, <3>2
  <2>5. Owned(q, own)'
    BY Zenon, <1>4, <1>5, <1>8, <2>3, <2>4 DEF Owned
  <2>6. \A u \in Thread : pc'[u] = "run" <=> jobs'[u] # << >>
    <3>1. pc'[t] # "run" /\ jobs' = jobs
      BY Zenon, <2>1
    <3> QED
      BY Zenon, <1>3, <1>7, <2>1, <3>1
  <2> QED
    BY Zenon, <1>1, <1>4, <1>6, <1>7, <2>1, <2>2, <2>5, <2>6 DEF JobsInv
<1>12. CASE Take(t, idl)
  <2>1. queue.length = Len(q) /\ Len(q) \in Nat /\ \A i, j \in 1 .. Len(q) : q[i] = q[j] => i = j
    <3>1. Len(q) \in Nat
      OBVIOUS
    <3> QED
      BY Zenon, <1>1, <3>1 DEF Listed
  <2>2. PICK n \in 1 .. Len(q) : n = SliceLength(idl)
    <3>1. threads \in Nat
      BY FiniteThreads DEF PoolInv, Running
    <3>2. queue.length > 0
      BY Zenon, <1>12 DEF Take
    <3> QED
      BY <2>1, <3>1, <3>2, SliceBounded
  <2>3. /\ Slice(n) /\ jobs' = [jobs EXCEPT ![t] = Items(n)] /\ length' = [length EXCEPT ![t] = n]
        /\ pc' = [pc EXCEPT ![t] = "run"]
    BY Zenon, <1>12, <2>2 DEF Take
  <2> DEFINE a == SubSeq(q, 1, n)
             b == SubSeq(q, n + 1, Len(q))
             taken == {w \in Work : \E i \in 1 .. n : q[i] = w}
             now == [w \in Work |-> IF w \in taken THEN t ELSE own[w]]
  <2>4. /\ Items(n) = a /\ Listed(b)' /\ next' = [w \in Work |-> next'[w]]
        /\ \A w \in Work : next[w] = Null => next'[w] = Null
    BY Zenon, <1>1, <2>3, Sliced
  <2>5. a \in Seq(Work) /\ Len(a) = n /\ \A i \in 1 .. n : a[i] = q[i] /\ q[i] \in Work
    BY <1>1, <2>1
  <2>6. b \in Seq(Work) /\ Len(b) = Len(q) - n /\ \A i \in 1 .. Len(q) - n : b[i] = q[n + i]
    BY <1>1, <2>1
  <2> HIDE DEF a, b
  <2>7. \A i, j \in 1 .. Len(a) : a[i] = a[j] => i = j
    <3>1. \A i \in 1 .. n : i \in 1 .. Len(q)
      BY <2>1
    <3> QED
      BY Zenon, <2>1, <2>5, <3>1
  <2>8. Cardinality(taken) = n
    <3>1. taken = {w \in Work : \E i \in 1 .. Len(a) : a[i] = w}
      BY Zenon, <2>5
    <3>2. Cardinality({w \in Work : \E i \in 1 .. Len(a) : a[i] = w}) = Len(a)
      BY Zenon, <2>5, <2>7, DistinctCount
    <3> QED
      BY Zenon, <2>5, <3>1, <3>2
  <2>9. \A w \in taken : owner[w] = 0 /\ own[w] = 0
    <3>1. \A i \in 1 .. n : i \in 1 .. Len(q)
      BY <2>1
    <3> QED
      BY Zenon, <1>4, <1>8, <3>1
  <2>10. t \in -1 .. NThreads /\ t # 0 /\ t # -1 /\ 0 # -1 /\ \A u \in Thread : u # 0 /\ u # -1
    BY PoolAssumption DEF Thread
  <2>11. now \in [Work -> -1 .. NThreads]
    BY Zenon, <1>4, <2>10
  <2>12. \A w \in Work : /\ now[w] = t <=> w \in taken
                         /\ now[w] # -1 <=> own[w] # -1
                         /\ \A u \in Thread \ {t} : now[w] = u <=> own[w] = u
    BY Zenon, <1>4, <2>9, <2>10
  <2>13. \A w \in Work : now[w] = 0 <=> \E i \in 1 .. Len(b) : b[i] = w
    <3> SUFFICES ASSUME NEW w \in Work PROVE now[w] = 0 <=> \E i \in 1 .. Len(b) : b[i] = w
      BY Zenon
    <3>1. now[w] = 0 <=> w \notin taken /\ \E i \in 1 .. Len(q) : q[i] = w
      BY Zenon, <1>4, <1>8, <2>10
    <3>2. ASSUME NEW i \in 1 .. Len(q), q[i] = w, w \notin taken
          PROVE  \E k \in 1 .. Len(b) : b[k] = w
      <4>1. i \notin 1 .. n
        BY Zenon, <3>2
      <4>2. i - n \in 1 .. Len(q) - n /\ n + (i - n) = i
        BY <2>1, <4>1
      <4>3. b[i - n] = q[n + (i - n)]
        BY Zenon, <2>6, <4>2
      <4>4. i - n \in 1 .. Len(b) /\ b[i - n] = w
        BY Zenon, <2>6, <3>2, <4>2, <4>3
      <4> QED
        BY Zenon, <4>4
    <3>3. ASSUME NEW k \in 1 .. Len(b), b[k] = w
          PROVE  w \notin taken /\ \E i \in 1 .. Len(q) : q[i] = w
      <4>0. k \in 1 .. Len(q) - n /\ b[k] = q[n + k]
        BY Zenon, <2>6
      <4>1. n + k \in 1 .. Len(q) /\ \A i \in 1 .. n : i \in 1 .. Len(q) /\ i # n + k
        BY <2>1, <4>0
      <4> QED
        BY Zenon, <2>1, <3>3, <4>0, <4>1
    <3> HIDE DEF taken, now
    <3> QED
      BY Zenon, <3>1, <3>2, <3>3
  <2>14. left' = Cardinality({w \in Work : now[w] # -1})
    <3>1. {w \in Work : now[w] # -1} = open
      BY Zenon, <2>12
    <3> QED
      BY Zenon, <1>5, <3>1
  <2>15. jobs'[t] = a /\ length'[t] = n /\ pc'[t] = "run"
         /\ \A u \in Thread \ {t} : jobs'[u] = jobs[u] /\ length'[u] = length[u] /\ pc'[u] = pc[u]
    BY <1>3, <1>7, <2>3, <2>4
  <2>16. ASSUME NEW u \in Thread
         PROVE  /\ pc'[u] \in {"lock", "run"} => length'[u] = Cardinality({w \in Work : now[w] = u})
                /\ pc'[u] \notin {"lock", "run"} => \A w \in Work : now[w] # u
                /\ \A i \in 1 .. Len(jobs'[u]) : now[jobs'[u][i]] = u
    <3> HIDE DEF now
    <3>1. CASE u = t
      <4>1. {w \in Work : now[w] = t} = taken
        BY Zenon, <2>12
      <4>2. \A i \in 1 .. n : a[i] \in taken /\ a[i] \in Work
        BY Zenon, <2>5
      <4> HIDE DEF taken
      <4>3. /\ jobs'[u] = a /\ length'[u] = n /\ pc'[u] = "run" /\ Len(a) = n
            /\ Cardinality(taken) = n
        BY Zenon, <2>5, <2>8, <2>15, <3>1
      <4>4. \A i \in 1 .. Len(jobs'[u]) : now[jobs'[u][i]] = u
        BY Zenon, <2>12, <3>1, <4>2, <4>3
      <4> QED
        BY Zenon, <3>1, <4>1, <4>3, <4>4
    <3>2. CASE u # t
      <4>0. u \in Thread \ {t}
        BY Zenon, <3>2
      <4>1. /\ pc'[u] \in {"lock", "run"} => length'[u] = Cardinality({w \in Work : own[w] = u})
            /\ pc'[u] \notin {"lock", "run"} => \A w \in Work : own[w] # u
            /\ \A i \in 1 .. Len(jobs'[u]) : own[jobs'[u][i]] = u
        BY Zenon, <1>9, <2>15, <4>0
      <4>4. \A w \in Work : now[w] = u <=> own[w] = u
        BY Zenon, <2>12, <4>0
      <4>2. {w \in Work : now[w] = u} = {w \in Work : own[w] = u}
        BY Zenon, <4>4
      <4>3. \A i \in 1 .. Len(jobs'[u]) : jobs'[u][i] \in Work
        BY <1>7, <2>15, <3>2
      <4>5. \A i \in 1 .. Len(jobs'[u]) : now[jobs'[u][i]] = u
        BY Zenon, <4>1, <4>3, <4>4
      <4> QED
        BY Zenon, <4>1, <4>2, <4>4, <4>5
    <3> QED
      BY <3>1, <3>2
  <2>17. ASSUME NEW w \in Work
         PROVE  done'[w] = IF \/ w \notin submitted' \/ now[w] = 0
                              \/ \E u \in Thread : \E i \in 1 .. Len(jobs'[u]) : jobs'[u][i] = w
                           THEN 0 ELSE 1
    <3>1. now[w] = 0 <=> owner[w] = 0 /\ w \notin taken
      BY Zenon, <1>4, <2>10
    <3>2. (\E i \in 1 .. Len(jobs'[t]) : jobs'[t][i] = w) <=> w \in taken
      BY Zenon, <2>5, <2>15
    <3>3. ~ \E i \in 1 .. Len(jobs[t]) : jobs[t][i] = w
      BY <1>3
    <3>4. w \in taken => owner[w] = 0
      BY Zenon, <2>9
    <3> HIDE DEF now, taken
    <3>5. (\E u \in Thread : \E i \in 1 .. Len(jobs'[u]) : jobs'[u][i] = w)
            <=> w \in taken \/ \E u \in Thread : \E i \in 1 .. Len(jobs[u]) : jobs[u][i] = w
      <4>1. \A u \in Thread \ {t} : jobs'[u] = jobs[u]
        BY Zenon, <2>15
      <4>2. \A u \in Thread : u = t \/ u \in Thread \ {t}
        BY Zenon
      <4> QED
        BY Zenon, <3>2, <3>3, <4>1, <4>2
    <3> QED
      BY Zenon, <1>10, <3>1, <3>4, <3>5
  <2>18. \A w \in Work : now[w] # -1 => w \in submitted'
    BY Zenon, <1>4, <1>8, <2>12
  <2>19. Owned(b, now)'
    BY Zenon, <2>13, <2>14, <2>16, <2>17, <2>18 DEF Owned
  <2>20. /\ jobs' \in [Thread -> Seq(Work)] /\ length' \in [Thread -> Nat]
         /\ \A u \in Thread : pc'[u] = "run" <=> jobs'[u] # << >>
    <3>1. a # << >> /\ n \in Nat
      BY <2>5
    <3>2. jobs' \in [Thread -> Seq(Work)] /\ length' \in [Thread -> Nat]
      BY Zenon, <1>7, <2>3, <2>4, <2>5, <3>1
    <3>3. \A u \in Thread \ {t} : pc'[u] = "run" <=> jobs'[u] # << >>
      BY Zenon, <1>7, <2>15
    <3>4. pc'[t] = "run" <=> jobs'[t] # << >>
      BY Zenon, <2>15, <3>1
    <3> QED
      BY Zenon, <3>2, <3>3, <3>4
  <2>21. \A u \in Thread : \A i, j \in 1 .. Len(jobs'[u]) : jobs'[u][i] = jobs'[u][j] => i = j
    <3>1. ASSUME NEW u \in Thread \ {t}
          PROVE  \A i, j \in 1 .. Len(jobs'[u]) : jobs'[u][i] = jobs'[u][j] => i = j
      BY Zenon, <1>7, <2>15
    <3>2. \A i, j \in 1 .. Len(jobs'[t]) : jobs'[t][i] = jobs'[t][j] => i = j
      BY Zenon, <2>7, <2>15
    <3> QED
      BY Zenon, <3>1, <3>2
  <2>22. submitted' \subseteq Work /\ DOMAIN done' = Work /\ \A w \in Work \ submitted' : next'[w] = Null
    BY Zenon, <2>4 DEF JobsInv
  <2> QED
    BY Zenon, <1>6, <2>4, <2>6, <2>11, <2>19, <2>20, <2>21, <2>22 DEF JobsInv
<1> QED
  BY <1>11, <1>12

\* btc_work_execute: the item was not executed before, and is in no other place.
LEMMA ExecuteKeepsJobs ==
  ASSUME PoolInv, JobsInv, NEW t \in Thread, Execute(t)
  PROVE  JobsInv'
<1>1. PICK q \in Seq(Work) : Listed(q) /\ \E owner \in [Work -> -1 .. NThreads] : Owned(q, owner)
  BY Zenon DEF JobsInv
<1>2. PICK owner \in [Work -> -1 .. NThreads] : Owned(q, owner)
  BY Zenon, <1>1
<1>3. /\ jobs \in [Thread -> Seq(Work)] /\ pc \in [Thread -> {"lock", "wait", "woken", "run", "exit"}]
      /\ \A u \in Thread : pc[u] = "run" <=> jobs[u] # << >>
      /\ \A u \in Thread : \A i, j \in 1 .. Len(jobs[u]) : jobs[u][i] = jobs[u][j] => i = j
      /\ DOMAIN done = Work
  BY Zenon DEF JobsInv, PoolInv
<1>4. PICK s \in Seq(Work) : s = jobs[t]
  BY Zenon, <1>3
<1>5. pc[t] = "run" /\ s # << >>
  BY Zenon, <1>3, <1>4 DEF Execute
<1>6. /\ Len(s) \in Nat /\ Len(s) > 0 /\ Head(s) = s[1] /\ s[1] \in Work
      /\ Tail(s) \in Seq(Work) /\ Len(Tail(s)) = Len(s) - 1
      /\ \A i \in 1 .. Len(s) - 1 : Tail(s)[i] = s[i + 1]
  BY <1>5
<1>7. \A i, j \in 1 .. Len(s) : s[i] = s[j] => i = j
  BY Zenon, <1>3, <1>4
<1>8. /\ done' = [done EXCEPT ![Head(s)] = @ + 1]
      /\ jobs' = [jobs EXCEPT ![t] = Tail(s)]
      /\ pc' = IF Len(s) = 1 THEN [pc EXCEPT ![t] = "lock"] ELSE pc
      /\ UNCHANGED <<queue, next, left, stop, length, master, submitted>>
  BY Zenon, <1>4 DEF Execute
<1>h. PICK h \in Work : h = s[1]
  BY Zenon, <1>6
<1>r. PICK r \in Seq(Work) : r = Tail(s)
  BY Zenon, <1>6
<1>9. /\ jobs'[t] = r /\ \A u \in Thread \ {t} : jobs'[u] = jobs[u]
      /\ jobs' \in [Thread -> Seq(Work)]
  BY Zenon, <1>3, <1>6, <1>8, <1>r
<1>10. /\ pc'[t] = (IF Len(s) = 1 THEN "lock" ELSE "run")
       /\ \A u \in Thread \ {t} : pc'[u] = pc[u]
  BY Zenon, <1>3, <1>5, <1>8
<1>11. /\ \A u \in Thread : /\ pc[u] \in {"lock", "run"} <=> pc'[u] \in {"lock", "run"}
                            /\ pc'[u] = "run" <=> jobs'[u] # << >>
  <2>1. ASSUME NEW u \in Thread \ {t}
        PROVE  /\ pc[u] \in {"lock", "run"} <=> pc'[u] \in {"lock", "run"}
               /\ pc'[u] = "run" <=> jobs'[u] # << >>
    BY Zenon, <1>3, <1>9, <1>10
  <2>2. Len(s) = 1 <=> r = << >>
    <3>1. r = << >> <=> Len(r) = 0
      OBVIOUS
    <3>2. Len(s) = 1 <=> Len(r) = 0
      BY <1>6, <1>r
    <3> QED
      BY Zenon, <3>1, <3>2
  <2>3. pc[t] \in {"lock", "run"} /\ pc'[t] \in {"lock", "run"} /\ (pc'[t] = "run" <=> jobs'[t] # << >>)
    BY Zenon, <1>5, <1>9, <1>10, <2>2
  <2> QED
    BY Zenon, <2>1, <2>3
<1>12. /\ \A i \in 1 .. Len(r) : /\ i + 1 \in 1 .. Len(s) /\ r[i] = s[i + 1] /\ r[i] # h
       /\ \A w \in Work : (\E i \in 1 .. Len(s) : s[i] = w) <=> w = h \/ \E i \in 1 .. Len(r) : r[i] = w
  <2>1. \A i \in 1 .. Len(r) : i + 1 \in 1 .. Len(s) /\ i + 1 # 1 /\ 1 \in 1 .. Len(s) /\ r[i] = s[i + 1]
    BY <1>6, <1>r
  <2>2. \A i \in 1 .. Len(r) : r[i] # h
    BY Zenon, <1>7, <1>h, <2>1
  <2>3. ASSUME NEW i \in 1 .. Len(s) PROVE s[i] = h \/ \E k \in 1 .. Len(r) : r[k] = s[i]
    <3>1. i = 1 \/ (i - 1 \in 1 .. Len(s) - 1 /\ (i - 1) + 1 = i)
      BY <1>6
    <3>2. i = 1 \/ (i - 1 \in 1 .. Len(r) /\ r[i - 1] = s[i])
      BY Zenon, <1>6, <1>r, <3>1
    <3> QED
      BY Zenon, <1>h, <3>2
  <2>4. 1 \in 1 .. Len(s)
    BY <1>6
  <2>5. ASSUME NEW w \in Work
        PROVE  (\E i \in 1 .. Len(s) : s[i] = w) <=> w = h \/ \E i \in 1 .. Len(r) : r[i] = w
    <3>1. ASSUME NEW i \in 1 .. Len(s), s[i] = w PROVE w = h \/ \E k \in 1 .. Len(r) : r[k] = w
      BY Zenon, <2>3, <3>1
    <3>2. w = h => \E i \in 1 .. Len(s) : s[i] = w
      BY Zenon, <1>h, <2>4
    <3>3. ASSUME NEW k \in 1 .. Len(r), r[k] = w PROVE \E i \in 1 .. Len(s) : s[i] = w
      BY Zenon, <2>1, <3>3
    <3> QED
      BY Zenon, <3>1, <3>2, <3>3
  <2> QED
    BY Zenon, <2>1, <2>2, <2>5
<1>13. \A u \in Thread : \A i \in 1 .. Len(jobs[u]) : owner[jobs[u][i]] = u
  BY Zenon, <1>2 DEF Owned
<1>14. t # 0 /\ t # -1 /\ 1 \in 1 .. Len(s)
  BY <1>6, PoolAssumption DEF Thread
<1>15. owner[h] = t
  BY Zenon, <1>4, <1>h, <1>13, <1>14
<1>16. ASSUME NEW u \in Thread
       PROVE  /\ \A i \in 1 .. Len(jobs'[u]) : owner[jobs'[u][i]] = u /\ jobs'[u][i] # h
              /\ \A i, j \in 1 .. Len(jobs'[u]) : jobs'[u][i] = jobs'[u][j] => i = j
  <2>1. CASE u = t
    <3>0. (\A i \in 1 .. Len(s) : owner[s[i]] = t) /\ jobs'[u] = r
      BY Zenon, <1>4, <1>9, <1>13, <2>1
    <3>1. \A i \in 1 .. Len(r) : owner[r[i]] = u /\ r[i] # h
      <4> SUFFICES ASSUME NEW i \in 1 .. Len(r) PROVE owner[r[i]] = u /\ r[i] # h
        BY Zenon
      <4>1. i + 1 \in 1 .. Len(s) /\ r[i] = s[i + 1] /\ r[i] # h
        BY Zenon, <1>12
      <4>2. owner[s[i + 1]] = t
        BY Zenon, <3>0, <4>1
      <4> QED
        BY Zenon, <2>1, <4>1, <4>2
    <3>2. \A i, j \in 1 .. Len(r) : r[i] = r[j] => i + 1 = j + 1
      BY Zenon, <1>7, <1>12
    <3>3. \A i, j \in 1 .. Len(r) : i + 1 = j + 1 => i = j
      BY <1>6, <1>r
    <3> QED
      BY Zenon, <3>0, <3>1, <3>2, <3>3
  <2>2. CASE u # t
    <3>1. jobs'[u] = jobs[u]
      BY Zenon, <1>9, <2>2
    <3>2. \A i \in 1 .. Len(jobs[u]) : owner[jobs[u][i]] = u
      BY Zenon, <1>13
    <3>3. \A i \in 1 .. Len(jobs[u]) : jobs[u][i] # h
      BY Zenon, <1>15, <2>2, <3>2
    <3>4. \A i, j \in 1 .. Len(jobs[u]) : jobs[u][i] = jobs[u][j] => i = j
      BY Zenon, <1>3
    <3> QED
      BY Zenon, <3>1, <3>2, <3>3, <3>4
  <2> QED
    BY <2>1, <2>2
<1>17. ASSUME NEW w \in Work
       PROVE  (\E u \in Thread : \E i \in 1 .. Len(jobs[u]) : jobs[u][i] = w)
                <=> w = h \/ \E u \in Thread : \E i \in 1 .. Len(jobs'[u]) : jobs'[u][i] = w
  <2>1. (\E i \in 1 .. Len(jobs[t]) : jobs[t][i] = w)
            <=> w = h \/ \E i \in 1 .. Len(jobs'[t]) : jobs'[t][i] = w
    BY Zenon, <1>4, <1>9, <1>12
  <2>2. \A u \in Thread : u = t \/ jobs'[u] = jobs[u]
    BY Zenon, <1>9
  <2> QED
    BY Zenon, <2>1, <2>2
<1>18. ASSUME NEW w \in Work
       PROVE  done'[w] = IF \/ w \notin submitted' \/ owner[w] = 0
                            \/ \E u \in Thread : \E i \in 1 .. Len(jobs'[u]) : jobs'[u][i] = w
                         THEN 0 ELSE 1
  <2>1. done[w] = IF \/ w \notin submitted \/ owner[w] = 0
                     \/ \E u \in Thread : \E i \in 1 .. Len(jobs[u]) : jobs[u][i] = w
                  THEN 0 ELSE 1
    BY Zenon, <1>2 DEF Owned
  <2>2. CASE w = h
    <3>1. done[w] = 0
      BY Zenon, <1>17, <2>1, <2>2
    <3>2. done'[w] = 1
      <4>1. done'[w] = done[w] + 1
        BY Zenon, <1>3, <1>6, <1>8, <1>h, <2>2
      <4> QED
        BY <3>1, <4>1
    <3>3. w \in submitted' /\ owner[w] # 0
      BY Zenon, <1>2, <1>6, <1>8, <1>14, <1>15, <2>2 DEF Owned
    <3>4. ~ \E u \in Thread : \E i \in 1 .. Len(jobs'[u]) : jobs'[u][i] = w
      BY Zenon, <1>16, <2>2
    <3> QED
      BY Zenon, <3>2, <3>3, <3>4
  <2>3. CASE w # h
    <3>1. done'[w] = done[w] /\ submitted' = submitted
      BY Zenon, <1>3, <1>6, <1>8, <1>h, <2>3
    <3> QED
      BY Zenon, <1>17, <2>1, <2>3, <3>1
  <2> QED
    BY <2>2, <2>3
<1>19. Listed(q)'
  BY Zenon, <1>1, <1>8 DEF Listed
<1>20. Owned(q, owner)'
  <2>1. /\ \A w \in Work : owner[w] = 0 <=> \E i \in 1 .. Len(q) : q[i] = w
        /\ \A w \in Work : owner[w] # -1 => w \in submitted'
        /\ left' = Cardinality({w \in Work : owner[w] # -1})
    BY Zenon, <1>2, <1>8 DEF Owned
  <2>2. ASSUME NEW u \in Thread
        PROVE  /\ pc'[u] \in {"lock", "run"} => length'[u] = Cardinality({w \in Work : owner[w] = u})
               /\ pc'[u] \notin {"lock", "run"} => \A w \in Work : owner[w] # u
    BY Zenon, <1>2, <1>8, <1>11 DEF Owned
  <2> QED
    BY Zenon, <1>16, <1>18, <2>1, <2>2 DEF Owned
<1>21. DOMAIN done' = Work
  BY Zenon, <1>3, <1>8
<1> QED
  BY Zenon, <1>1, <1>8, <1>9, <1>11, <1>16, <1>19, <1>20, <1>21 DEF JobsInv

\* btc_workers_destroy: the owner is not waiting, so the queue is empty before it
\* is reset.
LEMMA DestroyKeepsJobs ==
  ASSUME PoolInv, JobsInv, Destroy
  PROVE  JobsInv'
<1>1. PICK q \in Seq(Work) : Listed(q) /\ \E owner \in [Work -> -1 .. NThreads] : Owned(q, owner)
  BY Zenon DEF JobsInv
<1>2. PICK owner \in [Work -> -1 .. NThreads] : Owned(q, owner)
  BY Zenon, <1>1
<1>t. \A u \in Thread :
        /\ pc[u] \in {"lock", "run"} => length[u] = Cardinality({w \in Work : owner[w] = u})
        /\ pc[u] \notin {"lock", "run"} => \A w \in Work : owner[w] # u
        /\ \A i \in 1 .. Len(jobs[u]) : owner[jobs[u][i]] = u
  BY Zenon, <1>2 DEF Owned
<1>3. /\ left = 0 /\ master' = "join" /\ stop' = TRUE
      /\ queue' = [head |-> Null, tail |-> Null, length |-> 0]
      /\ UNCHANGED <<next, left, jobs, length, submitted, done>>
  BY DEF Destroy, JobsInv
<1>4. q = << >>
  BY Zenon, <1>1, <1>2, <1>3, NothingLeft
<1>5. \A t \in Thread : /\ pc'[t] \in {"lock", "run"} <=> pc[t] \in {"lock", "run"}
                        /\ pc'[t] = "run" <=> pc[t] = "run"
  BY DEF Destroy, Broadcast, Wake, Waiting
<1>6. Listed(q)'
  BY <1>3, <1>4 DEF Listed
<1>7. Owned(q, owner)'
  <2>1. ASSUME NEW t \in Thread
        PROVE  /\ pc'[t] \in {"lock", "run"} => length'[t] = Cardinality({w \in Work : owner[w] = t})
               /\ pc'[t] \notin {"lock", "run"} => \A w \in Work : owner[w] # t
               /\ \A i \in 1 .. Len(jobs'[t]) : owner[jobs'[t][i]] = t
    <3>1. /\ pc[t] \in {"lock", "run"} => length[t] = Cardinality({w \in Work : owner[w] = t})
          /\ pc[t] \notin {"lock", "run"} => \A w \in Work : owner[w] # t
          /\ \A i \in 1 .. Len(jobs[t]) : owner[jobs[t][i]] = t
      BY Zenon, <1>t
    <3>2. pc'[t] \in {"lock", "run"} <=> pc[t] \in {"lock", "run"}
      BY Zenon, <1>5
    <3> QED
      BY Zenon, <1>3, <3>1, <3>2
  <2>2. /\ \A w \in Work : owner[w] = 0 <=> \E i \in 1 .. Len(q) : q[i] = w
        /\ \A w \in Work : owner[w] # -1 => w \in submitted'
        /\ left' = Cardinality({w \in Work : owner[w] # -1})
    BY Zenon, <1>2, <1>3 DEF Owned
  <2>3. ASSUME NEW w \in Work
        PROVE  done'[w] = IF \/ w \notin submitted' \/ owner[w] = 0
                             \/ \E t \in Thread : \E i \in 1 .. Len(jobs'[t]) : jobs'[t][i] = w
                          THEN 0 ELSE 1
    <3>1. done[w] = IF \/ w \notin submitted \/ owner[w] = 0
                       \/ \E t \in Thread : \E i \in 1 .. Len(jobs[t]) : jobs[t][i] = w
                    THEN 0 ELSE 1
      BY Zenon, <1>2 DEF Owned
    <3> QED
      BY Zenon, <1>3, <3>1
  <2> QED
    BY Zenon, <2>1, <2>2, <2>3 DEF Owned
<1> QED
  BY Zenon, <1>3, <1>5, <1>6, <1>7 DEF JobsInv

LEMMA JobsInvHolds == CheckerSpec => []JobsInv
<1>1. Init => JobsInv
  <2> SUFFICES ASSUME Init PROVE JobsInv
    OBVIOUS
  <2> DEFINE none == [w \in Work |-> -1]
  <2>1. Listed(<< >>)
    BY DEF Init, Listed
  <2>2. none \in [Work -> -1 .. NThreads] /\ \A t \in Thread : t # -1
    BY PoolAssumption DEF Thread
  <2>3. /\ {w \in Work : none[w] # -1} = {}
        /\ \A t \in Thread : {w \in Work : none[w] = t} = {}
    BY <2>2
  <2>4. Owned(<< >>, none)
    <3>1. /\ left = 0 /\ submitted = {} /\ done = [w \in Work |-> 0]
          /\ \A t \in Thread : jobs[t] = << >> /\ length[t] = 0 /\ pc[t] = "lock"
      BY DEF Init
    <3>2. Len(<< >>) = 0 /\ \A i \in 1 .. 0 : FALSE
      OBVIOUS
    <3>3. \A w \in Work : none[w] # 0 /\ ~(none[w] # -1)
      OBVIOUS
    <3> HIDE DEF none
    <3> QED
      BY Zenon, <2>3, <3>1, <3>2, <3>3, FS_EmptySet DEF Owned
  <2>5. << >> \in Seq(Work)
    OBVIOUS
  <2>6. /\ submitted = {} /\ next = [w \in Work |-> Null] /\ done = [w \in Work |-> 0]
        /\ jobs \in [Thread -> Seq(Work)] /\ length \in [Thread -> Nat]
        /\ left = 0 /\ stop = FALSE /\ master = "free"
        /\ \A t \in Thread : jobs[t] = << >> /\ pc[t] = "lock"
    BY DEF Init
  <2>7. \A i \in 1 .. Len(<< >>) : FALSE
    OBVIOUS
  <2> HIDE DEF none
  <2> QED
    BY Zenon, <2>1, <2>2, <2>4, <2>5, <2>6, <2>7 DEF JobsInv
<1>2. PoolInv /\ JobsInv /\ [CheckerNext]_vars => JobsInv'
  <2> SUFFICES ASSUME PoolInv, JobsInv, [CheckerNext]_vars PROVE JobsInv'
    OBVIOUS
  <2> DEFINE ended == {"join", "joining", "gone"}
  <2>1. CASE \E ws \in Batches : Batch(ws, "batched")
    BY Zenon, <2>1, BatchKeepsJobs
  <2>2. CASE Destroy
    BY Zenon, <2>2, DestroyKeepsJobs
  <2>3. (stop <=> master \in ended) /\ (master = "free" => left = 0) /\ left \in Nat
    <3>1. PICK q \in Seq(Work), owner \in [Work -> -1 .. NThreads] : Owned(q, owner)
      BY Zenon DEF JobsInv
    <3>2. IsFiniteSet({w \in Work : owner[w] # -1})
      BY WorkAssumption, FS_Subset
    <3>3. left \in Nat
      BY <3>1, <3>2, FS_CardinalityType DEF Owned
    <3> QED
      BY Zenon, <3>3 DEF JobsInv
  <2>4. CASE MasterStep \/ Spurious \/ UNCHANGED vars
    <3>1. /\ UNCHANGED <<queue, next, left, jobs, length, submitted, done>>
          /\ stop' = stop
      BY Zenon, <2>4 DEF MasterStep, Wait, Join, Spurious, vars
    <3>2. \A t \in Thread : pc'[t] = pc[t] \/ (pc[t] = "wait" /\ pc'[t] = "woken")
      <4>1. CASE pc' = pc
        BY Zenon, <4>1
      <4>2. CASE \E u \in Waiting : Wake({u})
        BY <4>2 DEF Wake, Waiting
      <4> QED
        BY Zenon, <2>4, <4>1, <4>2 DEF MasterStep, Wait, Join, Spurious, vars
    <3>3. (stop' <=> master' \in ended) /\ (master' = "free" => left = 0)
      <4>1. master \in ended <=> master' \in ended
        BY Zenon, <2>4 DEF MasterStep, Wait, Join, Spurious, Roused, vars
      <4>2. master' = "free" => master = "free" \/ ~(left > 0)
        BY Zenon, <2>4 DEF MasterStep, Wait, Join, Spurious, Roused, vars
      <4>3. ~(left > 0) => left = 0
        BY <2>3
      <4> QED
        BY Zenon, <2>3, <3>1, <4>1, <4>2, <4>3
    <3> QED
      BY Zenon, <3>1, <3>2, <3>3, NoWorkMoves
  <2>5. ASSUME NEW t \in Thread, Top(t) PROVE JobsInv'
    <3>1. PICK n \in Nat : n = idle
      BY FiniteThreads DEF PoolInv, Asleep
    <3>2. Sleep(t, n) \/ Quit(t, n) \/ Take(t, n)
      BY Zenon, <2>5, <3>1 DEF Top
    <3>3. /\ pc[t] \in {"lock", "woken"} /\ left' = left - (IF pc[t] = "lock" THEN length[t] ELSE 0)
          /\ UNCHANGED <<stop, submitted, done>>
      BY Zenon, <2>5 DEF Top
    <3>4. (stop <=> master' \in ended) /\ (master' = "free" => master = "free")
      BY <2>3, <2>5 DEF Top, Roused
    <3> QED
      BY Zenon, <3>2, <3>3, <3>4, TurnKeepsJobs
  <2>6. ASSUME NEW t \in Thread, Wakeup(t) PROVE JobsInv'
    <3>1. PICK n \in Nat : n = idle - 1
      <4>1. IsFiniteSet(Asleep) /\ t \in Asleep
        BY <2>6, FiniteThreads DEF Asleep, Wakeup
      <4>2. Cardinality(Asleep \ {t}) = idle - 1 /\ Cardinality(Asleep \ {t}) \in Nat
        BY Zenon, <4>1, FS_RemoveElement, FiniteThreads DEF PoolInv, Asleep
      <4> QED
        BY Zenon, <4>2
    <3>2. Sleep(t, n) \/ Quit(t, n) \/ Take(t, n)
      BY Zenon, <2>6, <3>1 DEF Wakeup
    <3>3. pc[t] = "woken" /\ UNCHANGED <<left, stop, submitted, done>> /\ left = left - 0
      BY <2>3, <2>6 DEF Wakeup
    <3>4. /\ pc[t] \in {"lock", "woken"} /\ left' = left - (IF pc[t] = "lock" THEN length[t] ELSE 0)
          /\ UNCHANGED <<stop, submitted, done>>
      BY Zenon, <3>3
    <3>5. (stop <=> master' \in ended) /\ (master' = "free" => master = "free")
      BY <2>3, <2>6 DEF Wakeup, Roused
    <3> QED
      BY Zenon, <3>2, <3>4, <3>5, TurnKeepsJobs
  <2>7. ASSUME NEW t \in Thread, Execute(t) PROVE JobsInv'
    BY Zenon, <2>7, ExecuteKeepsJobs
  <2> QED
    BY Zenon, <2>1, <2>2, <2>4, <2>5, <2>6, <2>7 DEF CheckerNext, ThreadStep
<1> QED
  BY <1>1, <1>2, PoolInvHolds, PTL DEF CheckerSpec

\* When btc_workers_wait can return, every work item of every batch has been
\* executed, and none of them twice: for any number of threads, any work and
\* any batch size.
THEOREM WaitMeansDoneAlways == CheckerSpec => []WaitMeansDone
<1>1. JobsInv => WaitMeansDone
  <2> SUFFICES ASSUME JobsInv PROVE WaitMeansDone
    OBVIOUS
  <2>1. PICK q \in Seq(Work) : Listed(q) /\ \E owner \in [Work -> -1 .. NThreads] : Owned(q, owner)
    BY Zenon DEF JobsInv
  <2>2. PICK owner \in [Work -> -1 .. NThreads] : Owned(q, owner)
    BY Zenon, <2>1
  <2>3. \A w \in Work : done[w] \in {0, 1}
    BY Zenon, <2>2 DEF Owned
  <2>4. ASSUME left = 0, NEW w \in submitted PROVE done[w] = 1
    <3>1. owner[w] # 0 /\ w \in Work /\ \A t \in Thread : \A i \in 1 .. Len(jobs[t]) : FALSE
      <4>1. (\A u \in Work : owner[u] = -1) /\ \A t \in Thread : Len(jobs[t]) = 0
        BY Zenon, <2>1, <2>2, <2>4, NothingLeft
      <4> QED
        BY <4>1 DEF JobsInv
    <3> QED
      BY Zenon, <2>2, <3>1 DEF Owned
  <2> QED
    BY <2>3, <2>4 DEF WaitMeansDone
<1> QED
  BY <1>1, JobsInvHolds, PTL

=============================================================================
