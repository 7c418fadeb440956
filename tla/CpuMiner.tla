------------------------------ MODULE CpuMiner ------------------------------
(***************************************************************************)
(* The CPU miner of src/node/miner.c: the loop thread runs on_tick and     *)
(* setgenerate, mining threads search for a nonce outside the lock.  A     *)
(* critical section of cpu->lock is one action; a thread in btc_cond_wait  *)
(* is in pc "wait" until it is woken and moves to "lock".                  *)
(*                                                                         *)
(* The fields of a thread (extra nonces, time, merkle root) are abstracted *)
(* to whether the header the thread is working on still agrees with them.  *)
(* Time is abstracted too: whether a job is a minute old is left open.     *)
(***************************************************************************)
EXTENDS Integers, FiniteSets

CONSTANTS
    NThreads,   \* cpu->length
    MaxTip      \* bound on the number of blocks

ASSUME MinerAssumption == NThreads \in Nat \ {0} /\ MaxTip \in Nat

Thread == 1 .. NThreads
None == -1

VARIABLES
    tip,       \* btc_chain_tip; blocks are numbered as they become the tip
    mining, stop, active,
    job,       \* prev_block of cpu->job; None while that is NULL
    lastTip,   \* cpu->last_tip; None while it is zero
    result,    \* thread->result: -1 working, 0 nothing found, 1 found
    solves,    \* whether thread->nonce solves the job with the thread's fields
    pc,        \* where a thread is; "off" if it does not exist
    local,     \* the variable result of mining_thread
    fits,      \* whether hdr of mining_thread has the thread's fields
    main       \* what the loop thread is doing

threadVars == <<result, solves, fits>>
vars == <<tip, mining, stop, active, job, lastTip, threadVars, pc, local, main>>

TypeOK ==
    /\ tip \in 0 .. MaxTip
    /\ mining \in BOOLEAN /\ stop \in BOOLEAN
    /\ active \in 0 .. NThreads
    /\ job \in {None} \cup 0 .. MaxTip
    /\ lastTip \in {None} \cup 0 .. MaxTip
    /\ result \in [Thread -> {-1, 0, 1}]
    /\ solves \in [Thread -> BOOLEAN]
    /\ pc \in [Thread -> {"off", "top", "lock", "wait", "mine"}]
    /\ local \in [Thread -> {-1, 0, 1}]
    /\ fits \in [Thread -> BOOLEAN]
    /\ main \in {"loop", "join", "joining", "aborted"}

\* btc_cpuminer_init.
Init ==
    /\ tip = 0 /\ mining = FALSE /\ stop = FALSE /\ active = 0
    /\ job = None /\ lastTip = None
    /\ result = [t \in Thread |-> -1]
    /\ solves = [t \in Thread |-> FALSE]
    /\ pc = [t \in Thread |-> "off"]
    /\ local = [t \in Thread |-> -1]
    /\ fits = [t \in Thread |-> FALSE]
    /\ main = "loop"

-----------------------------------------------------------------------------
(* Condition variable cpu->worker.                                         *)

Waiting == {t \in Thread : pc[t] = "wait"}

Wake(ts) == pc' = [t \in Thread |-> IF t \in ts THEN "lock" ELSE pc[t]]

Broadcast == Wake(Waiting)

Signal == IF Waiting = {} THEN Wake({}) ELSE \E t \in Waiting : Wake({t})

-----------------------------------------------------------------------------
(* Jobs.  Both operations give every thread new fields.                    *)

NewFields ==
    /\ result' = [t \in Thread |-> -1]
    /\ solves' = [t \in Thread |-> FALSE]
    /\ fits' = [t \in Thread |-> FALSE]

\* The template extends the tip.
StartJob == job' = tip /\ lastTip' = tip /\ NewFields

\* Slip: the results of the threads are kept.
StopJobKeepsResults == job' = None /\ UNCHANGED threadVars

StopJob == job' = None /\ NewFields

-----------------------------------------------------------------------------
(* The loop thread.                                                        *)

\* setgenerate(1, n): btc_cpuminer_start.
Start(n) ==
    /\ main = "loop" /\ ~mining
    /\ mining' = TRUE
    /\ active' = n
    /\ pc' = [t \in Thread |-> IF t <= n THEN "top" ELSE pc[t]]
    /\ local' = [t \in Thread |-> IF t <= n THEN -1 ELSE local[t]]
    /\ UNCHANGED <<tip, stop, job, lastTip, threadVars, main>>

\* Slip: last_tip is not cleared.
StopKeepsTip ==
    /\ main = "loop" /\ mining
    /\ stop' = TRUE
    /\ StopJob
    /\ Signal
    /\ main' = "join"
    /\ UNCHANGED <<tip, mining, active, lastTip, local>>

\* setgenerate(0) or btc_miner_close: btc_cpuminer_stop up to the first unlock.
Stop ==
    /\ main = "loop" /\ mining
    /\ stop' = TRUE
    /\ StopJob
    /\ lastTip' = None
    /\ Signal
    /\ main' = "join"
    /\ UNCHANGED <<tip, mining, active, local>>

\* Slip: the threads are waited for once, whoever wakes the loop thread.
JoinOnce ==
    /\ main = "join"
    /\ main' = "loop" /\ stop' = FALSE /\ mining' = FALSE
    /\ UNCHANGED <<tip, active, job, lastTip, threadVars, pc, local>>

\* The loop of btc_cpuminer_stop around btc_cond_wait, and the rest of it.
Join ==
    /\ main = "join"
    /\ \/ /\ active > 0
          /\ main' = "joining"
          /\ UNCHANGED <<mining, stop>>
       \/ /\ active = 0
          /\ main' = "loop" /\ stop' = FALSE /\ mining' = FALSE
    /\ UNCHANGED <<tip, active, job, lastTip, threadVars, pc, local>>

\* The cases of on_tick, in its order.
Ticking == main = "loop" /\ mining

Found == {t \in Thread : result[t] = 1}

\* No job, and the tip is not the one the last job was for.
TickNewJob ==
    /\ Ticking /\ job = None
    /\ lastTip # tip
    /\ StartJob
    /\ Broadcast
    /\ UNCHANGED <<tip, mining, stop, active, local, main>>

\* The first thread with a result: btc_tmpl_prove holds if the nonce solves
\* the job, and may hold by chance if it does not.  The job is replaced or
\* dropped; after the unlock btc_chain_add makes the block the tip, or, if the
\* job was stale, perhaps a side chain.  Threads do not read the tip, so the
\* unlock in between makes no difference to them.
TickFound ==
    /\ Ticking /\ job # None
    /\ Found # {}
    /\ \/ /\ job # tip
          /\ StartJob
          /\ Broadcast
          /\ tip' \in {tip, tip + 1} \cap 0 .. MaxTip
       \/ /\ job = tip
          /\ tip < MaxTip
          /\ StopJob
          /\ tip' = tip + 1
          /\ UNCHANGED <<lastTip, pc>>
    /\ UNCHANGED <<mining, stop, active, local, main>>

\* CHECK(btc_tmpl_prove(...)) fails on the first thread with a result.
TickAbort ==
    /\ Ticking /\ job # None
    /\ \E t \in Found : (\A u \in Found : t <= u) /\ ~solves[t]
    /\ main' = "aborted"
    /\ UNCHANGED <<tip, mining, stop, active, job, lastTip, threadVars, pc, local>>

\* The job is stale.
TickStale ==
    /\ Ticking /\ job \notin {None, tip}
    /\ Found = {}
    /\ StartJob
    /\ Broadcast
    /\ UNCHANGED <<tip, mining, stop, active, local, main>>

\* The job is a minute old: look at the mempool again.
TickRefresh ==
    /\ Ticking /\ job = tip
    /\ Found = {}
    /\ StartJob
    /\ Broadcast
    /\ UNCHANGED <<tip, mining, stop, active, local, main>>

\* Slip: the results of threads that found nothing stay.
TickNoAdvance ==
    /\ Ticking /\ job = tip
    /\ Found = {}
    /\ Broadcast
    /\ UNCHANGED <<tip, mining, stop, active, job, lastTip, threadVars, local, main>>

\* Threads that found nothing go on with a new time, extra nonce or nonce.
TickAdvance ==
    /\ Ticking /\ job = tip
    /\ Found = {}
    /\ result' = [t \in Thread |-> -1]
    /\ fits' = [t \in Thread |-> fits[t] /\ result[t] = -1]
    /\ Broadcast
    /\ UNCHANGED <<tip, mining, stop, active, job, lastTip, solves, local, main>>

\* btc_chain_add of a block from elsewhere, which becomes the tip.
NewTip ==
    /\ main = "loop"
    /\ tip < MaxTip
    /\ tip' = tip + 1
    /\ UNCHANGED <<mining, stop, active, job, lastTip, threadVars, pc, local, main>>

-----------------------------------------------------------------------------
(* mining_thread.                                                          *)

\* What a thread does with the lock held once its result is res.
Continue(t, res) ==
    \/ /\ stop
       /\ active' = active - 1
       /\ main' = IF active = 1 /\ main = "joining" THEN "join" ELSE main
       /\ pc' = [pc EXCEPT ![t] = "off"]
       /\ UNCHANGED fits
    \/ /\ ~stop /\ job # None /\ res = -1
       /\ pc' = [pc EXCEPT ![t] = "mine"]
       /\ fits' = [fits EXCEPT ![t] = TRUE]
       /\ UNCHANGED <<active, main>>
    \/ /\ ~stop /\ (job = None \/ res # -1)
       /\ pc' = [pc EXCEPT ![t] = "wait"]
       /\ UNCHANGED <<active, fits, main>>

\* The top of the loop: store the result and the nonce of the last search.
Top(t) ==
    /\ main # "aborted"
    /\ pc[t] = "top"
    /\ LET stores == ~stop /\ local[t] # -1
       IN  /\ result' = IF stores THEN [result EXCEPT ![t] = local[t]] ELSE result
           /\ solves' = IF stores THEN [solves EXCEPT ![t] = local[t] = 1 /\ fits[t]]
                        ELSE solves
    /\ Continue(t, result'[t])
    /\ UNCHANGED <<tip, mining, stop, job, lastTip, local>>

\* Back from btc_cond_wait.
Resume(t) ==
    /\ main # "aborted"
    /\ pc[t] = "lock"
    /\ Continue(t, result[t])
    /\ UNCHANGED <<tip, mining, stop, job, lastTip, result, solves, local>>

\* btc_header_mine finds a nonce or gives up after 3 << 20 attempts.  Within
\* the bound on blocks it can always find one.
Mine(t, r) ==
    /\ main # "aborted"
    /\ pc[t] = "mine"
    /\ r = 1 => tip < MaxTip
    /\ local' = [local EXCEPT ![t] = r]
    /\ pc' = [pc EXCEPT ![t] = "top"]
    /\ UNCHANGED <<tip, mining, stop, active, job, lastTip, threadVars, main>>

ThreadStep(t) == Top(t) \/ Resume(t) \/ \E r \in {0, 1} : Mine(t, r)

\* btc_cond_wait may return without a signal, but need not.
Spurious ==
    /\ main # "aborted"
    /\ \/ \E t \in Waiting : Wake({t}) /\ UNCHANGED main
       \/ main = "joining" /\ main' = "join" /\ UNCHANGED pc
    /\ UNCHANGED <<tip, mining, stop, active, job, lastTip, threadVars, local>>

Next ==
    \/ \E n \in Thread : Start(n)
    \/ Stop \/ Join
    \/ TickNewJob \/ TickFound \/ TickAbort \/ TickStale \/ TickRefresh \/ TickAdvance
    \/ NewTip
    \/ \E t \in Thread : ThreadStep(t)
    \/ Spurious

\* Threads run; the loop goes on ticking, each tick taking the case that
\* applies; a call of stop goes on when it can.  Nothing makes a job a minute
\* old, or wakes a thread, that is not woken by the code.
Fairness ==
    /\ WF_vars(Join)
    /\ WF_vars(TickNewJob) /\ WF_vars(TickFound \/ TickAbort)
    /\ WF_vars(TickStale) /\ WF_vars(TickAdvance)
    /\ \A t \in Thread : WF_vars(ThreadStep(t))

Spec == Init /\ [][Next]_vars /\ Fairness

-----------------------------------------------------------------------------
\* "CHECK(thread->result == -1)" in mining_thread: a thread that comes back
\* from a search, or starts, finds its result unset, although on_tick, stop
\* and a restart of the miner wrote it in the meantime.
ResultUnset == \A t \in Thread : pc[t] = "top" => result[t] = -1

\* "CHECK(cpu->active == 0)" in btc_cpuminer_start: no thread outlives
\* btc_cpuminer_stop, to share its state with a thread of the next start, and
\* active counts the threads there are.
NoThreadLeft ==
    /\ ~mining => \A t \in Thread : pc[t] = "off"
    /\ active = Cardinality({t \in Thread : pc[t] # "off"})

\* A miner that is on and has no job gets one, unless it is stopped: after a
\* block was found, and after stopping and starting on the same tip.
JobComes ==
    (mining /\ ~stop /\ job = None) ~> (job # None \/ stop \/ main = "aborted")

\* A thread that waits while there is a job goes on, without the job having
\* to become stale or a minute old: no wakeup is lost.
ThreadsGoOn ==
    \A t \in Thread :
        (pc[t] = "wait" /\ job # None) ~> (pc[t] = "mine" \/ job = None \/ main = "aborted")

\* btc_cpuminer_stop returns: "Stopping miner..." is followed by "Miner
\* stopped.", whatever the threads are doing when it is called.
StopReturns == stop ~> (~mining \/ main = "aborted")
=============================================================================
