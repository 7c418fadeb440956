------------------------------ MODULE Workers ------------------------------
(***************************************************************************)
(* The thread pool of src/io/workers.c, and its user in src/node/chain.c   *)
(* (btc_checker), which verifies the transactions of a block in parallel.  *)
(* A critical section of the pool's mutex is one action; a thread in       *)
(* btc_cond_wait is in pc "wait" until a signal moves it to "woken".       *)
(***************************************************************************)
EXTENDS Integers, Sequences, FiniteSets, Functions

CONSTANTS
    Work,       \* work items; each is malloced, queued, executed and freed
    Offered,    \* lists of work items that btc_checker_verify may fill
    NThreads,   \* number of threads
    MaxBatch    \* pool->max_batch

Thread == 1 .. NThreads
Null == "null"

ASSUME PoolAssumption == NThreads \in Nat \ {0} /\ MaxBatch \in Nat \ {0}
ASSUME WorkAssumption == IsFiniteSet(Work) /\ Null \notin Work /\ Offered \subseteq Seq(Work)

VARIABLES
    queue,     \* pool->queue: head and tail pointers and the length
    next,      \* work->next
    left, idle, threads, stop,
    pc,        \* of the threads
    jobs,      \* what a thread took and has not executed yet
    length,    \* the variable of that name of worker_thread
    master,    \* what the thread that owns the pool is doing
    submitted, \* work handed to the pool
    done       \* how often a work item was executed

vars == <<queue, next, left, idle, threads, stop, pc, jobs, length, master,
          submitted, done>>

\* btc_workers_create.
Init ==
    /\ queue = [head |-> Null, tail |-> Null, length |-> 0]
    /\ next = [w \in Work |-> Null]
    /\ left = 0 /\ idle = 0 /\ threads = NThreads /\ stop = FALSE
    /\ pc = [t \in Thread |-> "lock"]
    /\ jobs = [t \in Thread |-> <<>>]
    /\ length = [t \in Thread |-> 0]
    /\ master = "free"
    /\ submitted = {}
    /\ done = [w \in Work |-> 0]

-----------------------------------------------------------------------------
(* The linked list.                                                        *)

\* The n-th work item of the list, or Null.
Item(n) ==
    LET walk[i \in 0 .. n] == IF i = 0 THEN queue.head
                              ELSE IF walk[i - 1] = Null THEN Null ELSE next[walk[i - 1]]
    IN  walk[n]

Items(n) == [i \in 1 .. n |-> Item(i - 1)]

\* The links of a queue that was filled by btc_workq_push.
Linked(ws) ==
    [w \in Work |-> IF \E i \in 1 .. Len(ws) - 1 : ws[i] = w
                    THEN ws[(CHOOSE i \in 1 .. Len(ws) - 1 : ws[i] = w) + 1]
                    ELSE next[w]]

\* btc_workq_concat of pool->queue and a batch.
Concat(ws) ==
    IF queue.head = Null
    THEN /\ queue' = [head |-> Head(ws), tail |-> ws[Len(ws)],
                      length |-> queue.length + Len(ws)]
         /\ next' = Linked(ws)
    ELSE /\ queue' = [queue EXCEPT !.tail = Head(ws), !.length = @ + Len(ws)]
         /\ next' = [Linked(ws) EXCEPT ![queue.tail] = Head(ws)]

\* btc_workq_slice: n times btc_workq_shift.
Slice(n) ==
    /\ queue' = [head |-> Item(n), tail |-> IF Item(n) = Null THEN Null ELSE queue.tail,
                 length |-> queue.length - n]
    /\ next' = [w \in Work |-> IF w \in Range(Items(n)) THEN Null ELSE next[w]]

\* btc_workers_slice, and the single shift if max_batch is 1; a thread that
\* was woken has taken itself off the idle ones.
SliceLength(idl) ==
    LET fair == queue.length \div (threads + idl + 1)
        most == IF fair > MaxBatch THEN MaxBatch ELSE fair
    IN  IF most < 1 THEN 1 ELSE most

-----------------------------------------------------------------------------
(* Condition variables.                                                    *)

Waiting == {t \in Thread : pc[t] = "wait"}

Wake(ts) == pc' = [t \in Thread |-> IF t \in ts THEN "woken" ELSE pc[t]]

Signal == IF Waiting = {} THEN Wake({}) ELSE \E t \in Waiting : Wake({t})

Broadcast == Wake(Waiting)

\* The master after a signal on pool->master.
Roused == CASE master = "wait" -> "check" [] master = "joining" -> "join" [] OTHER -> master

-----------------------------------------------------------------------------
(* The owner of the pool.                                                  *)

\* Slip: a batch counts as one.
BatchCountsOne(ws, then) ==
    /\ master = "free"
    /\ Concat(ws)
    /\ left' = left + 1
    /\ Broadcast
    /\ submitted' = submitted \cup Range(ws)
    /\ master' = then
    /\ UNCHANGED <<idle, threads, stop, jobs, length, done>>

\* btc_workers_batch; a batch of one is what btc_workers_add does.  "then" is
\* what the owner does next: btc_checker_verify goes on to wait.
Batch(ws, then) ==
    /\ master = "free"
    /\ Concat(ws)
    /\ left' = left + Len(ws)
    /\ IF Len(ws) = 1 THEN Signal ELSE Broadcast
    /\ submitted' = submitted \cup Range(ws)
    /\ master' = then
    /\ UNCHANGED <<idle, threads, stop, jobs, length, done>>

\* btc_workers_wait: the loop around btc_cond_wait.
Wait ==
    /\ master \in {"batched", "check"}
    /\ master' = IF left > 0 THEN "wait" ELSE "free"
    /\ UNCHANGED <<queue, next, left, idle, threads, stop, pc, jobs, length, submitted, done>>

\* Slip: one thread is told to stop.
DestroySignals ==
    /\ master = "free"
    /\ queue' = [head |-> Null, tail |-> Null, length |-> 0]
    /\ stop' = TRUE
    /\ Signal
    /\ master' = "join"
    /\ UNCHANGED <<next, left, idle, threads, jobs, length, submitted, done>>

\* btc_workers_destroy, up to the first unlock.
Destroy ==
    /\ master = "free"
    /\ queue' = [head |-> Null, tail |-> Null, length |-> 0]
    /\ stop' = TRUE
    /\ Broadcast
    /\ master' = "join"
    /\ UNCHANGED <<next, left, idle, threads, jobs, length, submitted, done>>

\* Slip: the threads are not waited for.
JoinNone ==
    /\ master = "join"
    /\ master' = "gone"
    /\ UNCHANGED <<queue, next, left, idle, threads, stop, pc, jobs, length, submitted, done>>

\* The loop of btc_workers_destroy around btc_cond_wait.
Join ==
    /\ master = "join"
    /\ master' = IF threads > 0 THEN "joining" ELSE "gone"
    /\ UNCHANGED <<queue, next, left, idle, threads, stop, pc, jobs, length, submitted, done>>

-----------------------------------------------------------------------------
(* worker_thread.  What a thread does with the mutex held, from where it   *)
(* looks at stop and the queue; idl is the value of idle by then.          *)

\* Slip: idle is not incremented.
SleepUncounted(t, idl) ==
    /\ ~stop /\ queue.length = 0
    /\ idle' = idl
    /\ pc' = [pc EXCEPT ![t] = "wait"]
    /\ UNCHANGED <<queue, next, threads, jobs, length>>

Sleep(t, idl) ==
    /\ ~stop /\ queue.length = 0
    /\ idle' = idl + 1
    /\ pc' = [pc EXCEPT ![t] = "wait"]
    /\ UNCHANGED <<queue, next, threads, jobs, length>>

Quit(t, idl) ==
    /\ stop
    /\ threads' = threads - 1
    /\ idle' = idl
    /\ pc' = [pc EXCEPT ![t] = "exit"]
    /\ UNCHANGED <<queue, next, jobs, length>>

Take(t, idl) ==
    /\ ~stop /\ queue.length > 0
    /\ LET n == SliceLength(idl)
       IN  /\ Slice(n)
           /\ jobs' = [jobs EXCEPT ![t] = Items(n)]
           /\ length' = [length EXCEPT ![t] = n]
    /\ idle' = idl
    /\ pc' = [pc EXCEPT ![t] = "run"]
    /\ UNCHANGED threads

\* Slip: the master is not signalled when the last work is finished.
SignalsNever(lft, finished) == FALSE

\* Whether finishing work signals pool->master.
Signals(lft, finished) == finished > 0 /\ ~stop /\ lft = 0

\* From the top of the loop, after running length[t] jobs.
Top(t) ==
    /\ pc[t] = "lock"
    /\ left' = left - length[t]
    /\ Sleep(t, idle) \/ Quit(t, idle) \/ Take(t, idle)
    /\ master' = IF Signals(left', length[t]) \/ (stop /\ threads' = 0) THEN Roused ELSE master
    /\ UNCHANGED <<stop, submitted, done>>

\* Back from btc_cond_wait.
Wakeup(t) ==
    /\ pc[t] = "woken"
    /\ Sleep(t, idle - 1) \/ Quit(t, idle - 1) \/ Take(t, idle - 1)
    /\ master' = IF stop /\ threads' = 0 THEN Roused ELSE master
    /\ UNCHANGED <<left, stop, submitted, done>>

\* btc_work_execute of one job, without the mutex.
Execute(t) ==
    /\ pc[t] = "run"
    /\ done' = [done EXCEPT ![Head(jobs[t])] = @ + 1]
    /\ jobs' = [jobs EXCEPT ![t] = Tail(@)]
    /\ pc' = IF Len(jobs[t]) = 1 THEN [pc EXCEPT ![t] = "lock"] ELSE pc
    /\ UNCHANGED <<queue, next, left, idle, threads, stop, length, master, submitted>>

ThreadStep(t) == Top(t) \/ Wakeup(t) \/ Execute(t)

\* btc_cond_wait may return without a signal, but need not.
Spurious ==
    /\ \/ \E t \in Waiting : Wake({t}) /\ UNCHANGED master
       \/ master # Roused /\ master' = Roused /\ UNCHANGED pc
    /\ UNCHANGED <<queue, next, left, idle, threads, stop, jobs, length, submitted, done>>

\* Batches of new work.
Batches ==
    {ws \in Offered : /\ Len(ws) > 0
                      /\ \A i \in 1 .. Len(ws) : ws[i] \notin submitted
                      /\ \A i, j \in 1 .. Len(ws) : ws[i] = ws[j] => i = j}

MasterStep == Wait \/ Join

\* The pool as btc_checker_verify uses it: a batch, then wait.
CheckerNext ==
    \/ \E ws \in Batches : Batch(ws, "batched")
    \/ Destroy \/ MasterStep
    \/ \E t \in Thread : ThreadStep(t)
    \/ Spurious

Fairness == WF_vars(MasterStep) /\ \A t \in Thread : WF_vars(ThreadStep(t))

CheckerSpec == Init /\ [][CheckerNext]_vars /\ Fairness

-----------------------------------------------------------------------------
\* When btc_workers_wait can return, every work item handed to the pool has
\* been executed: btc_checker_verify then reads the results and frees the
\* items.  None is ever executed twice.
WaitMeansDone ==
    /\ \A w \in Work : done[w] <= 1
    /\ ~stop /\ left = 0 => \A w \in submitted : done[w] = 1

\* q is the list in pool->queue.
Listed(q) ==
    /\ q \in Seq(Work)
    /\ \A i, j \in 1 .. Len(q) : q[i] = q[j] => i = j
    /\ queue.head = IF q = <<>> THEN Null ELSE q[1]
    /\ queue.length = Len(q)
    /\ \A i \in 1 .. Len(q) : next[q[i]] = IF i = Len(q) THEN Null ELSE q[i + 1]

\* owner[w] is the thread that took w and has not taken it off left yet, 0 if
\* w is in the queue, and -1 otherwise.
Owned(q, owner) ==
    /\ \A w \in Work : owner[w] = 0 <=> \E i \in 1 .. Len(q) : q[i] = w
    /\ \A w \in Work : owner[w] # -1 => w \in submitted
    /\ left = Cardinality({w \in Work : owner[w] # -1})
    /\ \A t \in Thread :
        /\ pc[t] \in {"lock", "run"} => length[t] = Cardinality({w \in Work : owner[w] = t})
        /\ pc[t] \notin {"lock", "run"} => \A w \in Work : owner[w] # t
        /\ \A i \in 1 .. Len(jobs[t]) : owner[jobs[t][i]] = t
    /\ \A w \in Work : done[w] =
            IF \/ w \notin submitted \/ owner[w] = 0
               \/ \E t \in Thread : \E i \in 1 .. Len(jobs[t]) : jobs[t][i] = w
            THEN 0 ELSE 1

\* Every work item handed to the pool and not counted off is in one place.
JobsInv ==
    /\ submitted \subseteq Work
    /\ \A w \in Work \ submitted : next[w] = Null
    /\ DOMAIN done = Work /\ next = [w \in Work |-> next[w]]
    /\ jobs \in [Thread -> Seq(Work)]
    /\ length \in [Thread -> Nat]
    /\ \A t \in Thread : /\ pc[t] = "run" <=> jobs[t] # <<>>
                        /\ \A i, j \in 1 .. Len(jobs[t]) : jobs[t][i] = jobs[t][j] => i = j
    /\ stop <=> master \in {"join", "joining", "gone"}
    /\ master = "free" => left = 0
    /\ \E q \in Seq(Work) : Listed(q) /\ \E owner \in [Work -> -1 .. NThreads] : Owned(q, owner)

\* pool->idle, from which slices are sized, is the number of threads in
\* btc_cond_wait or on their way out of it.
IdleCounts == idle = Cardinality({t \in Thread : pc[t] \in {"wait", "woken"}})

\* No thread outlives the pool: when btc_workers_destroy returns and the pool
\* is freed, all threads have left it for good.
NoLateWork == master = "gone" => \A t \in Thread : pc[t] = "exit"

\* btc_workers_wait returns.
WaitReturns == master = "batched" ~> master = "free"

\* btc_workers_destroy returns, also if threads are asleep or running work.
DestroyReturns == master = "join" ~> master = "gone"
=============================================================================
