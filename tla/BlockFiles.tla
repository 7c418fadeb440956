----------------------------- MODULE BlockFiles -----------------------------
(***************************************************************************)
(* The flat files of src/node/chaindb.c: blocks and undo records are       *)
(* appended to numbered files, and one lcdb batch per call then records    *)
(* where they are.  Files roll over when they are full and are unlinked    *)
(* when pruning is on.  The process can die between any two of these       *)
(* system calls; what it wrote to a file stays, what it did not commit     *)
(* does not.  A file is a sequence of units; a record takes several, so    *)
(* that a position can also hit the middle of one.                         *)
(***************************************************************************)
EXTENDS Integers, SequencesExt, FiniteSetsExt

CONSTANTS
    Entry, Genesis, Prev, Height,
    Size,         \* Size[k][e]: units of the block or undo record of e;
                  \* 0 if the undo list is empty and nothing is written
    MaxFileSize,  \* MAX_FILE_SIZE
    MaxId,        \* bound on the number of files
    MaxCrashes,   \* bound on the number of crashes
    Prune,        \* BTC_CHAIN_PRUNE
    KeepBlocks, PruneAfter   \* network->block

Kind == {"block", "undo"}

ASSUME FilesAssumption ==
    /\ Genesis \in Entry
    /\ Prev \in [Entry \ {Genesis} -> Entry]
    /\ Height \in [Entry -> Nat]
    /\ \A e \in Entry \ {Genesis} : Height[e] = Height[Prev[e]] + 1
    /\ Size \in [Kind -> [Entry -> 0 .. MaxFileSize]]
    /\ \A e \in Entry : Size["block"][e] > 0
    /\ Size["undo"][Genesis] = 0
    /\ Prune \in BOOLEAN
    /\ {MaxFileSize, MaxId, MaxCrashes, KeepBlocks, PruneAfter} \subseteq Nat

Nowhere == [id |-> -1, pos |-> -1]   \* block_pos = -1, undo_pos = -1

VARIABLES
    data,     \* the files that exist, by kind and number
    stored,   \* what is committed to lcdb: best files, file index, entries, tip
    mem,      \* the same as the process sees it
    job,      \* the call of btc_chaindb_save or btc_chaindb_reconnect
    crashes   \* how often the process died in a call

vars == <<data, stored, mem, job, crashes>>

Record(k, e) == [i \in 1 .. Size[k][e] |-> [of |-> e, at |-> i]]

EmptyFile == [id |-> 0, pos |-> 0, max |-> -1]

\* Slip: max_height is not updated once it is set.
UpdateFirstOnly(file, e, len) ==
    [file EXCEPT !.pos = @ + len, !.max = IF @ = -1 THEN Height[e] ELSE @]

\* btc_chainfile_update, and the new position.
Update(file, e, len) ==
    [file EXCEPT !.pos = @ + len, !.max = IF Height[e] > @ THEN Height[e] ELSE @]

Idle == [pc |-> "idle", entry |-> Genesis, connect |-> FALSE]

\* load_files on an empty directory, then init_index saves the genesis block.
Init ==
    /\ data = [k \in Kind |-> [i \in {0} |-> Record(k, Genesis)]]
    /\ stored = [file |-> [k \in Kind |->
                            IF k = "block" THEN Update(EmptyFile, Genesis, Size[k][Genesis])
                            ELSE EmptyFile],
                 files |-> [k \in Kind |-> {}],
                 at |-> [e \in Entry |-> [k \in Kind |->
                            IF e = Genesis /\ k = "block" THEN [id |-> 0, pos |-> 0]
                            ELSE Nowhere]],
                 main |-> <<Genesis>>]
    /\ mem = stored
    /\ job = Idle
    /\ crashes = 0

-----------------------------------------------------------------------------
Saved(e) == mem.at[e]["block"] # Nowhere

\* The entry has a record of kind k, and its file has not been pruned.
Present(k, e) == mem.at[e][k] # Nowhere /\ mem.at[e][k].id \in DOMAIN data[k]

\* Slip: the position starts again, but in the same file.
AllocSameFile(k, len) ==
    IF mem.file[k].pos + len <= MaxFileSize THEN mem ELSE [mem EXCEPT !.file[k].pos = 0]

\* btc_chaindb_alloc: go to the next file if this one is full.
Alloc(k, len) ==
    IF mem.file[k].pos + len <= MaxFileSize
    THEN mem
    ELSE [mem EXCEPT !.files[k] = @ \cup {mem.file[k]},
                     !.file[k] = [id |-> mem.file[k].id + 1, pos |-> 0, max |-> -1]]

\* Slip: the file is opened with btc_fs_create.
CreateWith(k, i, units) ==
    [j \in DOMAIN data[k] \cup {i} |-> IF j = i THEN units ELSE data[k][j]]

\* btc_fs_append, then the contents it is given.
AppendTo(k, i, units) ==
    [j \in DOMAIN data[k] \cup {i} |->
        (IF j \in DOMAIN data[k] THEN data[k][j] ELSE <<>>) \o (IF j = i THEN units ELSE <<>>)]

\* btc_chaindb_write_block and write_undo: O_APPEND puts the record at the
\* end of the file, the entry gets the position the process keeps count of.
Write(k, e) ==
    LET len == Size[k][e]
        m   == Alloc(k, len)
        id  == m.file[k].id
    IN  /\ id <= MaxId
        /\ data' = [data EXCEPT ![k] = AppendTo(k, id, Record(k, e))]
        /\ mem' = [m EXCEPT !.at[e][k] = [id |-> id, pos |-> m.file[k].pos],
                            !.file[k] = Update(@, e, len)]

\* btc_chaindb_save of a new block, on the main chain or on an alternate one.
SaveBlock(e, connect) ==
    /\ job = Idle
    /\ ~Saved(e)
    /\ Saved(Prev[e])
    /\ connect => Prev[e] = Last(mem.main)
    /\ Write("block", e)
    /\ job' = [pc |-> IF connect THEN "undo" ELSE "commit", entry |-> e, connect |-> connect]
    /\ UNCHANGED <<stored, crashes>>

\* btc_chaindb_reconnect of a saved block, which btc_chain_reconnect reads.
Reconnect(e) ==
    /\ job = Idle
    /\ Present("block", e)
    /\ Prev[e] = Last(mem.main)
    /\ job' = [pc |-> "undo", entry |-> e, connect |-> TRUE]
    /\ UNCHANGED <<data, stored, mem, crashes>>

WriteUndo ==
    /\ job.pc = "undo"
    /\ IF Size["undo"][job.entry] # 0 /\ mem.at[job.entry]["undo"] = Nowhere
       THEN Write("undo", job.entry)
       ELSE UNCHANGED <<data, mem>>
    /\ job' = [job EXCEPT !.pc = "prune"]
    /\ UNCHANGED <<stored, crashes>>

\* btc_chaindb_prune_files: unlink full files that only hold old blocks.
Target == Height[job.entry] - KeepBlocks

Prunable(k) == {f \in mem.files[k] : f.max < Target}

\* Slip: pruned files stay in the list.
RemainingAll(k) == mem.files[k]

Remaining(k) == mem.files[k] \ Prunable(k)

PruneFiles ==
    /\ job.pc = "prune"
    /\ IF Prune /\ Height[job.entry] >= KeepBlocks /\ Target > PruneAfter
       THEN /\ data' = [k \in Kind |->
                          Restrict(data[k], DOMAIN data[k] \ {f.id : f \in Prunable(k)})]
            /\ mem' = [mem EXCEPT !.files = [k \in Kind |-> Remaining(k)]]
       ELSE UNCHANGED <<data, mem>>
    /\ job' = [job EXCEPT !.pc = "commit"]
    /\ UNCHANGED <<stored, crashes>>

\* ldb_write of the batch, and the update of db->heights.
Commit ==
    /\ job.pc = "commit"
    /\ mem' = IF job.connect THEN [mem EXCEPT !.main = Append(@, job.entry)] ELSE mem
    /\ stored' = mem'
    /\ job' = Idle
    /\ UNCHANGED <<data, crashes>>

\* btc_chaindb_disconnect of the tip, if its records can be read.
Disconnect ==
    /\ job = Idle
    /\ Len(mem.main) > 1
    /\ Present("block", Last(mem.main))
    /\ mem.at[Last(mem.main)]["undo"] = Nowhere \/ Present("undo", Last(mem.main))
    /\ mem' = [mem EXCEPT !.main = Front(@)]
    /\ stored' = mem'
    /\ UNCHANGED <<data, job, crashes>>

\* btc_chaindb_load_files and load_index: positions come from lcdb, files are
\* opened for appending, created if need be, and not truncated.
Reopen ==
    /\ mem' = stored
    /\ data' = [k \in Kind |-> AppendTo(k, stored.file[k].id, <<>>)]
    /\ job' = Idle
    /\ UNCHANGED stored

\* The process is stopped between calls, or dies in the middle of one.
Restart == job = Idle /\ Reopen /\ UNCHANGED crashes
Crash == job # Idle /\ crashes < MaxCrashes /\ Reopen /\ crashes' = crashes + 1

Next ==
    \/ \E e \in Entry \ {Genesis} :
            Reconnect(e) \/ \E connect \in BOOLEAN : SaveBlock(e, connect)
    \/ WriteUndo \/ PruneFiles \/ Commit \/ Disconnect
    \/ Restart \/ Crash

Spec == Init /\ [][Next]_vars

\* The process has only ever been stopped between two calls.
Orderly == crashes = 0

-----------------------------------------------------------------------------
\* What btc_chaindb_read finds for the record of kind k of e: the entry whose
\* record starts at the position, or nothing.
Read(k, e) ==
    LET w == mem.at[e][k]
        f == data[k][w.id]
    IN  {r \in Entry : /\ w.pos + Size[k][r] <= Len(f)
                       /\ SubSeq(f, w.pos + 1, w.pos + Size[k][r]) = Record(k, r)
                       /\ Size[k][r] > 0}

\* The contents f of a file hold the record of kind k of e at position p.
Holds(f, p, k, e) ==
    /\ Size[k][e] > 0
    /\ p + Size[k][e] <= Len(f)
    /\ \A i \in 1 .. Size[k][e] : f[p + i] = [of |-> e, at |-> i]

Unit == [of : Entry, at : Nat]
File == [id : Nat, pos : Nat, max : Int]
Place == [id : Nat, pos : Nat] \cup {Nowhere}
Db == [file : [Kind -> File], files : [Kind -> SUBSET File],
       at : [Entry -> [Kind -> Place]], main : Seq(Entry)]

TypeOK ==
    /\ data = [k \in Kind |-> data[k]]
    /\ \A k \in Kind : /\ DOMAIN data[k] \subseteq Nat
                       /\ \A i \in DOMAIN data[k] : data[k][i] \in Seq(Unit)
    /\ {stored, mem} \subseteq Db
    /\ job \in [pc : {"idle", "undo", "prune", "commit"}, entry : Entry, connect : BOOLEAN]
    /\ crashes \in Nat

\* What lcdb holds and what the process holds agrees in itself: full files
\* have numbers of their own below that of the current file, no record is in
\* a later file than that, and a file's max_height covers the blocks in it.
Numbered(db) ==
    \A k \in Kind :
        /\ \A f \in db.files[k] : f.id < db.file[k].id
        /\ \A f, g \in db.files[k] : f.id = g.id => f = g
        /\ \A e \in Entry :
            /\ db.at[e][k].id <= db.file[k].id
            /\ \A f \in db.files[k] \cup {db.file[k]} :
                    f.id = db.at[e][k].id => Height[e] <= f.max

\* Without a crash, the files are what the process believes them to be.
InPlace ==
    \A k \in Kind :
        /\ DOMAIN data[k] \subseteq 0 .. mem.file[k].id
        /\ mem.file[k].id \in DOMAIN data[k]
        /\ Len(data[k][mem.file[k].id]) = mem.file[k].pos
        /\ \A f \in mem.files[k] : f.id \in DOMAIN data[k]
        /\ \A e \in Entry : Present(k, e) =>
                Holds(data[k][mem.at[e][k].id], mem.at[e][k].pos, k, e)

\* The inductive invariant: with it, the four properties below follow.
FilesInv ==
    /\ TypeOK
    /\ Numbered(mem) /\ Numbered(stored)
    /\ job = Idle => mem = stored
    /\ Orderly => InPlace

\* A position recorded for a block leads to that block, as long as its file
\* has not been pruned and the process did not die in a call: through
\* rollovers, reorganizations, blocks whose undo record is written long after
\* them, and restarts.
ReadsOwn ==
    Orderly /\ job = Idle =>
        \A e \in Entry, k \in Kind : Present(k, e) => Read(k, e) = {e}

\* "Undo coins should be empty": what disconnecting the tip reads as its undo
\* record is the record that was written for the tip.
TipUndoIsItsOwn ==
    job = Idle /\ Present("undo", Last(mem.main))
        => Read("undo", Last(mem.main)) = {Last(mem.main)}

\* Pruning never takes a block or an undo record of the last KeepBlocks
\* heights below the block being connected, even if the process crashed
\* between unlinking files and committing the batch before.
PrunesOldOnly ==
    [][\A e \in Entry, k \in Kind :
            Present(k, e) /\ mem.at[e][k].id \notin DOMAIN data'[k]
                => Height[e] < Height[job.entry] - KeepBlocks]_vars

\* A crash in the middle of a call does no harm to what was committed before
\* it: a record that reads back goes on to do so until its file is pruned.
CommittedStays ==
    [][\A e \in Entry, k \in Kind :
            (/\ Present(k, e)
             /\ stored.at[e][k] = mem.at[e][k]
             /\ Read(k, e) = {e}
             /\ Present(k, e)')
            => Read(k, e)' = {e}]_vars

\* A file that is gone is no longer in the file index once the call is over;
\* a crash may leave it there, to be removed by a later call.
IndexedFilesExist ==
    Orderly /\ job = Idle =>
        \A k \in Kind : \A f \in mem.files[k] : f.id \in DOMAIN data[k]
=============================================================================
