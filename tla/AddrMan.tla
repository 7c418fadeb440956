------------------------------ MODULE AddrMan ------------------------------
(***************************************************************************)
(* The address manager of src/base/addrman.c: the addresses of peers, the  *)
(* fresh buckets an untried address is in, the used bucket of one that was *)
(* connected to, the counters over them, the vector they are drawn from in *)
(* random order, and the file they are written to and read from.           *)
(*                                                                         *)
(* Times and attempts are abstracted to what is done because of them:      *)
(* whether an entry is stale, which of two is older and whether an         *)
(* address comes with news is left open.  btc_addrman_add evicts entry by  *)
(* entry; nothing else happens before it returns, but the process can die. *)
(***************************************************************************)
EXTENDS Integers, Sequences, FiniteSets

CONSTANTS
    Addr,        \* addresses and ports of peers
    FreshCount,  \* FRESH_COUNT
    FreshSize,   \* FRESH_SIZE
    UsedCount,   \* USED_COUNT
    UsedSize,    \* USED_SIZE
    MaxRefs,     \* MAX_REFS
    Percent,     \* share of the addresses that getaddr gives away
    MaxSaved,    \* bound: addresses in a file
    UsedBucket,  \* used_bucket: a function of the key and the address
    Nobody       \* NULL, for an entry

Fresh == 1 .. FreshCount
Used == 1 .. UsedCount

ASSUME AddrManAssumption ==
    /\ IsFiniteSet(Addr)
    /\ FreshCount \in Nat \ {0} /\ FreshSize \in Nat \ {0}
    /\ UsedCount \in Nat \ {0} /\ UsedSize \in Nat \ {0}
    /\ MaxRefs \in Nat \ {0} /\ Percent \in Nat /\ MaxSaved \in Nat
    /\ UsedBucket \in [Addr -> Used]
    /\ Nobody \notin Addr

Nowhere == 0

VARIABLES
    known,       \* keys of man->map
    home,        \* fresh_bucket of an entry: follows from its address and src
    marked,      \* entry->used
    refs,        \* entry->ref_count
    pos,         \* entry->rand_pos, from 1
    rnd,         \* man->rnd
    fresh, used, \* man->fresh and man->used
    totalFresh, totalUsed,
    dirty,       \* man->needs_flush
    call,        \* the call of btc_addrman_add in progress
    file,        \* peers.dat
    aborted      \* a CHECK has failed

tables == <<known, home, marked, refs, pos, rnd, fresh, used, totalFresh, totalUsed>>
vars == <<tables, dirty, call, file, aborted>>

NoCall == [addr |-> Nobody, bucket |-> Nowhere, left |-> {}, old |-> Nobody, new |-> FALSE]
NoFile == [state |-> "none"]
Torn == [state |-> "torn"]

Idle == call.addr = Nobody

Holders(a) == {b \in Fresh : a \in fresh[b]}

-----------------------------------------------------------------------------
(* The file.                                                               *)

\* btc_addrman_write: entries in the order of rnd, buckets as positions.
Snapshot ==
    [state |-> "whole",
     rnd |-> rnd,
     home |-> [i \in DOMAIN rnd |-> home[rnd[i]]],
     fresh |-> [b \in Fresh |-> {pos[a] : a \in fresh[b]}],
     used |-> [b \in Used |-> {pos[a] : a \in used[b]}]]

Refs(f, i) == Cardinality({b \in Fresh : i \in f.fresh[b]})

InFresh(f) == UNION {f.fresh[b] : b \in Fresh}
InUsed(f) == UNION {f.used[b] : b \in Used}

\* btc_addrman_read does not fail.
Readable(f) ==
    /\ f.state = "whole"
    /\ \A i, j \in DOMAIN f.rnd : f.rnd[i] = f.rnd[j] => i = j
    /\ \A b \in Fresh : f.fresh[b] \subseteq DOMAIN f.rnd /\ Cardinality(f.fresh[b]) <= FreshSize
    /\ \A b \in Used : f.used[b] \subseteq DOMAIN f.rnd /\ Cardinality(f.used[b]) <= UsedSize
    /\ InFresh(f) \cap InUsed(f) = {}
    /\ \A b, c \in Used : b # c => f.used[b] \cap f.used[c] = {}
    /\ DOMAIN f.rnd \subseteq InFresh(f) \cup InUsed(f)

\* Where an address is in the file; 0 if it is not.
Place(f, a) ==
    IF \E i \in DOMAIN f.rnd : f.rnd[i] = a
    THEN CHOOSE i \in DOMAIN f.rnd : f.rnd[i] = a
    ELSE 0

\* The tables that btc_addrman_read builds.
Loaded(f) ==
    [known |-> {f.rnd[i] : i \in DOMAIN f.rnd},
     home |-> [a \in Addr |-> IF Place(f, a) = 0 THEN Nowhere ELSE f.home[Place(f, a)]],
     marked |-> [a \in Addr |-> Place(f, a) \in InUsed(f)],
     refs |-> [a \in Addr |-> Refs(f, Place(f, a))],
     pos |-> [a \in Addr |-> Place(f, a)],
     rnd |-> f.rnd,
     fresh |-> [b \in Fresh |-> {f.rnd[i] : i \in f.fresh[b]}],
     used |-> [b \in Used |-> {f.rnd[i] : i \in f.used[b]}],
     totalFresh |-> Cardinality(InFresh(f)),
     totalUsed |-> Cardinality(InUsed(f))]

Current ==
    [known |-> known, home |-> home, marked |-> marked, refs |-> refs, pos |-> pos,
     rnd |-> rnd, fresh |-> fresh, used |-> used, totalFresh |-> totalFresh,
     totalUsed |-> totalUsed]

\* A new manager; btc_addrman_resolve adds the seeds to it, one by one.
Empty ==
    [known |-> {}, home |-> [a \in Addr |-> Nowhere], marked |-> [a \in Addr |-> FALSE],
     refs |-> [a \in Addr |-> 0], pos |-> [a \in Addr |-> 0], rnd |-> <<>>,
     fresh |-> [b \in Fresh |-> {}], used |-> [b \in Used |-> {}],
     totalFresh |-> 0, totalUsed |-> 0]

Become(t) ==
    /\ known' = t.known /\ home' = t.home
    /\ marked' = t.marked /\ refs' = t.refs
    /\ pos' = t.pos /\ rnd' = t.rnd
    /\ fresh' = t.fresh /\ used' = t.used
    /\ totalFresh' = t.totalFresh /\ totalUsed' = t.totalUsed

\* btc_addrman_create.
Init ==
    /\ known = Empty.known /\ home = Empty.home
    /\ marked = Empty.marked /\ refs = Empty.refs
    /\ pos = Empty.pos /\ rnd = Empty.rnd
    /\ fresh = Empty.fresh /\ used = Empty.used
    /\ totalFresh = Empty.totalFresh /\ totalUsed = Empty.totalUsed
    /\ dirty = FALSE /\ call = NoCall /\ file = NoFile /\ aborted = FALSE

-----------------------------------------------------------------------------
(* Entries.                                                                *)

\* Slip: the entry that fills the gap keeps its old position.
ForgetStale(a) ==
    LET n == Len(rnd)
        top == rnd[n]
    IN  /\ rnd' = [i \in 1 .. n - 1 |-> IF i = pos[a] THEN top ELSE rnd[i]]
        /\ pos' = [pos EXCEPT ![a] = 0]
        /\ known' = known \ {a}
        /\ home' = [home EXCEPT ![a] = Nowhere]

\* Out of man->map, btc_randvec_pop and btc_addrent_destroy.
Forget(a) ==
    LET n == Len(rnd)
        top == rnd[n]
    IN  /\ rnd' = [i \in 1 .. n - 1 |-> IF i = pos[a] THEN top ELSE rnd[i]]
        /\ pos' = [x \in Addr |-> IF x = a THEN 0
                                  ELSE IF x = top THEN pos[a] ELSE pos[x]]
        /\ known' = known \ {a}
        /\ home' = [home EXCEPT ![a] = Nowhere]

\* Slip: the counter is left alone when the last reference goes.
DropUncounted(a, b) ==
    /\ fresh' = [fresh EXCEPT ![b] = @ \ {a}]
    /\ refs' = [refs EXCEPT ![a] = @ - 1]
    /\ IF refs[a] = 1 THEN Forget(a) ELSE UNCHANGED <<rnd, pos, known, home>>
    /\ UNCHANGED <<marked, used, totalFresh, totalUsed>>

\* evict_fresh, for one entry: out of the bucket, and out of the manager with
\* the last reference.
Drop(a, b) ==
    /\ fresh' = [fresh EXCEPT ![b] = @ \ {a}]
    /\ refs' = [refs EXCEPT ![a] = @ - 1]
    /\ IF refs[a] = 1
       THEN Forget(a) /\ totalFresh' = totalFresh - 1
       ELSE UNCHANGED <<rnd, pos, known, home, totalFresh>>
    /\ UNCHANGED <<marked, used, totalUsed>>

-----------------------------------------------------------------------------
(* btc_addrman_add.                                                        *)

\* The bucket is searched for room first if it is full.
Begin(a, b, new) ==
    call' = [addr |-> a, bucket |-> b, old |-> Nobody, new |-> new,
             left |-> IF Cardinality(fresh[b]) >= FreshSize THEN fresh[b] ELSE {}]

\* An address nobody told of yet, from a source that gives it the bucket b.
AddNew(a, b) ==
    /\ Idle
    /\ a \notin known
    /\ totalFresh' = totalFresh + 1
    /\ Begin(a, b, TRUE)
    /\ UNCHANGED <<known, home, marked, refs, pos, rnd, fresh, used, totalUsed, dirty,
                   file, aborted>>

\* A known one: entry->addr.time is brought up to date, and that is all.
AddRefresh(a) ==
    /\ Idle
    /\ a \in known
    /\ dirty' = TRUE
    /\ UNCHANGED <<tables, call, file, aborted>>

\* Slip: the bucket is that of the new source.
AddKnownAnywhere(a) ==
    /\ Idle
    /\ a \in known /\ ~marked[a] /\ refs[a] # MaxRefs
    /\ \E b \in Fresh : a \notin fresh[b] /\ Begin(a, b, FALSE)
    /\ aborted' = (aborted \/ ~(0 < refs[a] /\ refs[a] < MaxRefs))
    /\ UNCHANGED <<tables, dirty, file>>

\* A known one that passes the tests: into its bucket too, if it is not there.
AddKnown(a) ==
    /\ Idle
    /\ a \in known /\ ~marked[a] /\ refs[a] # MaxRefs
    /\ a \notin fresh[home[a]]
    /\ Begin(a, home[a], FALSE)
    /\ aborted' = (aborted \/ ~(0 < refs[a] /\ refs[a] < MaxRefs))
    /\ UNCHANGED <<tables, dirty, file>>

\* The loop of evict_fresh: stale entries leave, the oldest other is noted.
EvictStale(x) ==
    /\ x \in call.left
    /\ Drop(x, call.bucket)
    /\ call' = [call EXCEPT !.left = @ \ {x}]
    /\ UNCHANGED <<dirty, file, aborted>>

EvictPass(x) ==
    /\ x \in call.left
    /\ \E o \in {x} \cup ({call.old} \cap Addr) :
            call' = [call EXCEPT !.left = @ \ {x}, !.old = o]
    /\ UNCHANGED <<tables, dirty, file, aborted>>

\* And the oldest one leaves after it.
EvictOld ==
    /\ ~Idle /\ call.left = {} /\ call.old # Nobody
    /\ Drop(call.old, call.bucket)
    /\ call' = [call EXCEPT !.old = Nobody]
    /\ UNCHANGED <<dirty, file, aborted>>

\* The rest of btc_addrman_add.
Insert ==
    LET a == call.addr
        b == call.bucket
    IN  /\ ~Idle /\ call.left = {} /\ call.old = Nobody
        /\ fresh' = [fresh EXCEPT ![b] = @ \cup {a}]
        /\ refs' = [refs EXCEPT ![a] = @ + 1]
        /\ IF a \in known THEN UNCHANGED <<known, home, rnd, pos>>
           ELSE /\ known' = known \cup {a}
                /\ home' = [home EXCEPT ![a] = b]
                /\ rnd' = Append(rnd, a)
                /\ pos' = [pos EXCEPT ![a] = Len(rnd) + 1]
        /\ dirty' = TRUE
        /\ call' = NoCall
        /\ UNCHANGED <<marked, used, totalFresh, totalUsed, file, aborted>>

-----------------------------------------------------------------------------
(* The other calls.                                                        *)

LastHolder(a) == CHOOSE b \in Holders(a) : \A c \in Holders(a) : c <= b

\* btc_addrman_mark_ack with room in the used bucket.
MarkAck(a) ==
    LET u == UsedBucket[a]
    IN  /\ Idle
        /\ a \in known /\ ~marked[a]
        /\ Cardinality(used[u]) < UsedSize
        /\ fresh' = [b \in Fresh |-> fresh[b] \ {a}]
        /\ refs' = [refs EXCEPT ![a] = @ - Cardinality(Holders(a))]
        /\ marked' = [marked EXCEPT ![a] = TRUE]
        /\ used' = [used EXCEPT ![u] = @ \cup {a}]
        /\ totalFresh' = totalFresh - 1
        /\ totalUsed' = totalUsed + 1
        /\ aborted' = (aborted \/ Holders(a) = {} \/ refs[a] <= 0 \/ refs'[a] # 0)
        /\ UNCHANGED <<known, home, pos, rnd, dirty, call, file>>

\* Without room: the oldest of the bucket goes back to its fresh bucket or, if
\* that is full, to the one the entry comes from.
MarkAckEvict(a, e) ==
    LET u == UsedBucket[a]
        without == [b \in Fresh |-> fresh[b] \ {a}]
        f == IF Cardinality(without[home[e]]) >= FreshSize THEN LastHolder(a) ELSE home[e]
    IN  /\ Idle
        /\ a \in known /\ ~marked[a]
        /\ Cardinality(used[u]) >= UsedSize
        /\ e \in used[u]
        /\ fresh' = [without EXCEPT ![f] = @ \cup {e}]
        /\ refs' = [refs EXCEPT ![a] = @ - Cardinality(Holders(a)), ![e] = @ + 1]
        /\ marked' = [marked EXCEPT ![a] = TRUE, ![e] = FALSE]
        /\ used' = [used EXCEPT ![u] = (@ \ {e}) \cup {a}]
        /\ aborted' = (aborted \/ Holders(a) = {} \/ refs[a] <= 0 \/ refs'[a] # 0 \/ refs[e] # 0)
        /\ UNCHANGED <<known, home, pos, rnd, totalFresh, totalUsed, dirty, call, file>>

\* btc_addrman_remove.
Remove(a) ==
    /\ Idle
    /\ a \in known
    /\ IF marked[a]
       THEN /\ used' = [b \in Used |-> used[b] \ {a}]
            /\ totalUsed' = totalUsed - 1
            /\ aborted' = (aborted \/ refs[a] # 0 \/ \A b \in Used : a \notin used[b])
            /\ UNCHANGED <<fresh, refs, totalFresh>>
       ELSE /\ fresh' = [b \in Fresh |-> fresh[b] \ {a}]
            /\ refs' = [refs EXCEPT ![a] = 0]
            /\ totalFresh' = totalFresh - 1
            /\ aborted' = (aborted \/ refs[a] # Cardinality(Holders(a)))
            /\ UNCHANGED <<used, totalUsed>>
    /\ marked' = [marked EXCEPT ![a] = FALSE]
    /\ Forget(a)
    /\ UNCHANGED <<dirty, call, file>>

Shuffles(n) ==
    {p \in [1 .. n -> 1 .. n] : \A i, j \in 1 .. n : p[i] = p[j] => i = j}

\* btc_addrman_getaddr: swaps entries of rnd until it has enough.
GetAddr ==
    /\ Idle
    /\ (Percent * Len(rnd)) \div 100 > 0
    /\ \E p \in Shuffles(Len(rnd)) :
            /\ rnd' = [i \in 1 .. Len(rnd) |-> rnd[p[i]]]
            /\ pos' = [a \in Addr |-> IF a \in known
                                      THEN CHOOSE i \in 1 .. Len(rnd) : p[i] = pos[a]
                                      ELSE pos[a]]
    /\ UNCHANGED <<known, home, marked, refs, fresh, used, totalFresh, totalUsed, dirty,
                   call, file, aborted>>

\* btc_addrman_flush; btc_fs_write_file truncates the file before it writes.
Flush ==
    /\ Idle /\ dirty
    /\ Len(rnd) <= MaxSaved
    /\ \/ file' = Snapshot /\ dirty' = FALSE
       \/ file' = Torn /\ UNCHANGED dirty
    /\ UNCHANGED <<tables, call, aborted>>

\* The process ends, or dies; btc_addrman_open reads the file.
Restart ==
    /\ Become(IF Readable(file) THEN Loaded(file) ELSE Empty)
    /\ dirty' = FALSE /\ call' = NoCall
    /\ UNCHANGED <<file, aborted>>

Next ==
    \/ \E a \in Addr :
          \/ \E b \in Fresh : AddNew(a, b)
          \/ AddRefresh(a) \/ AddKnown(a)
          \/ EvictStale(a) \/ EvictPass(a)
          \/ MarkAck(a)
          \/ \E e \in Addr : MarkAckEvict(a, e)
          \/ Remove(a)
    \/ EvictOld \/ Insert \/ GetAddr \/ Flush \/ Restart

Spec == Init /\ [][Next]_vars

-----------------------------------------------------------------------------
(* Properties.                                                             *)

Untried == {a \in known : ~marked[a]}
Tried == {a \in known : marked[a]}

\* The tables agree: an entry of man->map is either in exactly one used
\* bucket, its own, or in as many fresh ones as ref_count says, at least one;
\* no bucket holds more than it may, or anything else; the totals count the
\* entries, the one that is being added included; so that no CHECK of
\* addrman.c fails and btc_addrman_get finds a bucket that is not empty.
TablesAgree ==
    /\ ~aborted
    /\ \A a \in Addr :
          /\ refs[a] = Cardinality(Holders(a))
          /\ a \in Untried => refs[a] > 0
          /\ a \notin Untried => refs[a] = 0
          /\ {b \in Used : a \in used[b]} = IF a \in Tried THEN {UsedBucket[a]} ELSE {}
    /\ \A b \in Fresh : Cardinality(fresh[b]) <= FreshSize
    /\ \A b \in Used : Cardinality(used[b]) <= UsedSize
    /\ totalFresh = Cardinality(Untried) + (IF call.new THEN 1 ELSE 0)
    /\ totalUsed = Cardinality(Tried)

\* What btc_addrman_write would write now, btc_addrman_read accepts, and it
\* builds the same tables from it: entry->rand_pos, by which the buckets are
\* written, is where rnd has the entry.
ReadsBack == Idle => Readable(Snapshot) /\ Loaded(Snapshot) = Current

\* An address is never in more than two fresh buckets, however many sources
\* tell of it: the bucket follows from the source it first came from, and the
\* one other is where it was put when it lost its place in a used bucket.
\* ref_count stays far from MAX_REFS.
FewRefs == \A a \in Addr : refs[a] <= 2 /\ Cardinality(Holders(a) \ {home[a]}) <= 1
=============================================================================
