----------------------------- MODULE ChainState -----------------------------
(***************************************************************************)
(* The block chain of src/node/chain.c on top of the chain database of     *)
(* src/node/chaindb.c: btc_chain_add, alternate chains, reorganization,    *)
(* recovery from a failed reorganization, orphan blocks, the set of known  *)
(* invalid blocks, and the loss of the process at any point in between.    *)
(*                                                                         *)
(* Everything a call to btc_chain_add commits to disk is one lcdb batch    *)
(* per block; an action below ends where a batch is committed, so that     *)
(* Crash can strike between any two of them.  Checkpoints                  *)
(* (BTC_CHAIN_CHECKPOINTS) are off, and block files are abstracted to the  *)
(* blocks they hold: see the module BlockFiles.                            *)
(***************************************************************************)
EXTENDS Blocks, SequencesExt

CONSTANTS
    MaxOrphans    \* the limit of btc_chain_limit_orphans

ASSUME OrphanAssumption == MaxOrphans \in Nat \ {0}

(***************************************************************************)
(* A block arrives as a hash and a body.  The hash covers the header only, *)
(* so one hash can come with several bodies: the one it commits to, one    *)
(* that fails a check marked malleated in btc_block_check_sanity (merkle   *)
(* root, duplicated transactions, and a timestamp too far ahead of the     *)
(* local clock), and one whose witness is not the committed one, which     *)
(* only btc_chain_verify can tell.                                         *)
(***************************************************************************)
Body == {"genuine", "badroot", "badwitness"}

Phase == {"idle", "connect", "disconnect", "reconnect", "final", "resolve"}

VARIABLES
    index,     \* disk: hashes with an entry record (mirrored in db->hashes)
    tips,      \* disk: hashes with a tip record
    coins,     \* disk: the coin records
    undo,      \* disk: undo record of a block; NoUndo while undo_pos = -1
    meta,      \* disk: the hash under meta_key
    heights,   \* db->heights
    tip,       \* chain->tip
    invalid,   \* chain->invalid
    orphans,   \* chain->orphan_map and orphan_prev, in order of arrival
    job        \* what the call of btc_chain_add in progress still has to do

disk == <<index, tips, coins, undo, meta>>
vars == <<index, tips, coins, undo, meta, heights, tip, invalid, orphans, job>>

Orphan == [hash : Block, body : Body]

NoUndo == [kind |-> "none"]

Undo == [kind : {"coins"}, coins : Coins] \cup {NoUndo}

(***************************************************************************)
(* entry and body: the block being connected; old: the tip set_best_chain  *)
(* started from; fork and target: the arguments of reorganize; restoring:  *)
(* whether this is the second reorganize, back to the old tip.             *)
(***************************************************************************)
Job == [phase : Phase, entry : Block, body : Body, old : Block,
        fork : Block, target : Block, restoring : BOOLEAN]

Idle == [phase |-> "idle", entry |-> Genesis, body |-> "genuine",
         old |-> Genesis, fork |-> Genesis, target |-> Genesis,
         restoring |-> FALSE]

Connecting(b, body) == [Idle EXCEPT !.phase = "connect", !.entry = b, !.body = body]

\* The phases of btc_chain_set_best_chain.
Moving == {"disconnect", "reconnect", "final"}

Goto(j, phase) == IF phase = "idle" THEN Idle ELSE [j EXCEPT !.phase = phase]

TypeOK ==
    /\ index \subseteq Block
    /\ tips \subseteq Block
    /\ coins \in Coins
    /\ undo \in [Block -> Undo]
    /\ meta \in Block
    /\ heights \in Seq(Block)
    /\ tip \in Block
    /\ invalid \subseteq Block
    /\ orphans \in Seq(Orphan)
    /\ Len(orphans) <= MaxOrphans
    /\ job \in Job

\* btc_chaindb_open on an empty directory: the genesis block has been saved.
Init ==
    /\ index = {Genesis}
    /\ tips = {Genesis}
    /\ coins = NoCoins
    /\ undo = [b \in Block |-> NoUndo]
    /\ meta = Genesis
    /\ heights = <<Genesis>>
    /\ tip = Genesis
    /\ invalid = {}
    /\ orphans = <<>>
    /\ job = Idle

-----------------------------------------------------------------------------
IsMain(b) == Height[b] < Len(heights) /\ heights[Height[b] + 1] = b

HasOrphan(b) == \E i \in DOMAIN orphans : orphans[i].hash = b

\* The orphan that orphan_prev holds for a hash, as a set of positions.
NextOrphan(b) == {i \in DOMAIN orphans : Prev[orphans[i].hash] = b}

\* btc_chain_verify: header and body in their context, without the coins.
Verify(b, body) == b \notin BadContext \cup BadWeight /\ body # "badwitness"

\* Slip: the inputs are not checked against the coins.
VerifyContextNoInputs(b, body) == Verify(b, body)

VerifyContext(b, body) == Verify(b, body) /\ VerifyInputs(coins, b)

\* Slip: the malleated flag of the error is not looked at.
BlamedAlways(b, body) == {b}

\* What set_invalid is called with after a failed check of b: nothing if the
\* failing check is one of the malleated ones.
Blamed(b, body) ==
    IF b \notin BadContext /\ body = "badwitness" THEN {} ELSE {b}

\* Where find_fork stops: the highest ancestor of b on the main chain.
Forks(b) ==
    {f \in Block : /\ f \in Range(Path[b]) /\ IsMain(f)
                   /\ \A g \in Range(Path[b]) : IsMain(g) => Height[g] <= Height[f]}

ReadUndo(b) == IF undo[b] = NoUndo THEN NoCoins ELSE undo[b].coins

-----------------------------------------------------------------------------
(* btc_chain_add, up to the call of btc_chain_connect.                     *)

\* The duplicates that are looked up before the index.
Known(b) == b = Genesis \/ HasOrphan(b) \/ b \in invalid

\* The block is worth checking: not known, and no child of an invalid block.
Fresh(b) == ~Known(b) /\ Prev[b] \notin invalid /\ b \notin index

\* Early returns that change nothing: a block known as an orphan, as invalid
\* or from the index, and a body that fails a malleated check.
AddIgnored(b, body) ==
    /\ job = Idle
    /\ \/ Known(b)
       \/ ~Known(b) /\ Prev[b] \notin invalid /\ b \in index
       \/ Fresh(b) /\ b \notin BadPow /\ body = "badroot"
    /\ UNCHANGED vars

AddInvalidChild(b) ==
    /\ job = Idle
    /\ ~Known(b)
    /\ Prev[b] \in invalid
    /\ invalid' = invalid \cup {b}
    /\ UNCHANGED <<index, tips, coins, undo, meta, heights, tip, orphans, job>>

AddInsane(b, body) ==
    /\ job = Idle
    /\ Fresh(b)
    /\ b \in BadPow \/ (b \in BadBody /\ body # "badroot")
    /\ invalid' = invalid \cup {b}
    /\ UNCHANGED <<index, tips, coins, undo, meta, heights, tip, orphans, job>>

Sane(b, body) == b \notin BadPow \cup BadBody /\ body # "badroot"

(***************************************************************************)
(* btc_chain_store_orphan: an orphan with the same parent makes room, then *)
(* limit_orphans drops those that are over an hour old (the expired ones   *)
(* are the oldest) and, if MaxOrphans are left, the oldest.                *)
(***************************************************************************)
Evict(s, expired) ==
    LET live == SubSeq(s, expired + 1, Len(s))
    IN  IF Len(live) < MaxOrphans THEN live ELSE Tail(live)

\* Slip: an orphan with the same parent stays.
StoreOrphanBeside(b, body) ==
    /\ job = Idle
    /\ Fresh(b)
    /\ Sane(b, body)
    /\ Prev[b] \notin index
    /\ \E expired \in 0 .. Len(orphans) :
          orphans' = Append(Evict(orphans, expired), [hash |-> b, body |-> body])
    /\ UNCHANGED <<index, tips, coins, undo, meta, heights, tip, invalid, job>>

StoreOrphan(b, body) ==
    /\ job = Idle
    /\ Fresh(b)
    /\ Sane(b, body)
    /\ Prev[b] \notin index
    /\ \E expired \in 0 .. Len(orphans) :
          \/ /\ NextOrphan(Prev[b]) = {}
             /\ orphans' = Append(Evict(orphans, expired), [hash |-> b, body |-> body])
          \/ \E i \in NextOrphan(Prev[b]) :
                /\ expired < Len(orphans)
                /\ orphans' = Append(Evict(RemoveAt(orphans, i), expired),
                                     [hash |-> b, body |-> body])
    /\ UNCHANGED <<index, tips, coins, undo, meta, heights, tip, invalid, job>>

AddBlock(b, body) ==
    /\ job = Idle
    /\ Fresh(b)
    /\ Sane(b, body)
    /\ Prev[b] \in index
    /\ job' = Connecting(b, body)
    /\ UNCHANGED <<index, tips, coins, undo, meta, heights, tip, invalid, orphans>>

-----------------------------------------------------------------------------
(* btc_chain_connect: an alternate chain or a new best chain.              *)

\* btc_chaindb_save, the part common to main and alternate blocks.
SaveEntry(b) ==
    /\ index' = index \cup {b}
    /\ tips' = (tips \ {Prev[b]}) \cup {b}

SaveAlternate ==
    /\ job.phase = "connect"
    /\ Work[job.entry] <= Work[tip]
    /\ \/ /\ Verify(job.entry, job.body)
          /\ SaveEntry(job.entry)
          /\ job' = Goto(job, "resolve")
          /\ UNCHANGED invalid
       \/ /\ ~Verify(job.entry, job.body)
          /\ invalid' = invalid \cup Blamed(job.entry, job.body)
          /\ job' = Idle
          /\ UNCHANGED <<index, tips>>
    /\ UNCHANGED <<coins, undo, meta, heights, tip, orphans>>

\* What reorganize does next with the tip at t: the connect loop, then, in
\* front of it, the disconnect loop.
Climb(j, t) ==
    IF t # j.target THEN "reconnect" ELSE IF j.restoring THEN "idle" ELSE "final"

\* Slip: the disconnect loop stops after the first block.
DescendOnce(j, t) == IF t = j.old /\ t # j.fork THEN "disconnect" ELSE Climb(j, t)

Descend(j, t) == IF t # j.fork THEN "disconnect" ELSE Climb(j, t)

SetBestChain ==
    /\ job.phase = "connect"
    /\ Work[job.entry] > Work[tip]
    /\ \/ /\ Prev[job.entry] = tip
          /\ job' = [job EXCEPT !.phase = "final", !.old = tip, !.fork = tip,
                                !.target = tip]
       \/ /\ Prev[job.entry] # tip
          /\ \E f \in Forks(job.entry) :
                LET j == [job EXCEPT !.old = tip, !.fork = f,
                                     !.target = Prev[job.entry]]
                IN  job' = Goto(j, Descend(j, tip))
    /\ UNCHANGED <<index, tips, coins, undo, meta, heights, tip, invalid, orphans>>

\* Slip: a failed reorganization stays where it failed.
GiveUpStays(j) == Idle

\* Slip: the second reorganize goes to the new branch again.
GiveUpRetries(j) == IF Work[tip] < Work[j.old] THEN Goto(j, Descend(j, tip)) ELSE Idle

\* The error exits of set_best_chain: go back to the old tip if the tip now
\* has less work, otherwise stay.
GiveUp(j) ==
    IF Work[tip] < Work[j.old]
    THEN LET r == [j EXCEPT !.target = j.old, !.restoring = TRUE]
         IN  Goto(r, Descend(r, tip))
    ELSE Idle

\* btc_chain_disconnect of the tip.
Disconnect ==
    /\ job.phase = "disconnect"
    /\ coins' = DisconnectCoins(coins, tip, ReadUndo(tip))
    /\ meta' = Prev[tip]
    /\ heights' = Front(heights)
    /\ tip' = Prev[tip]
    /\ job' = Goto(job, Descend(job, Prev[tip]))
    /\ UNCHANGED <<index, tips, undo, invalid, orphans>>

\* Slip: no undo record is written.
ConnectBlockNoUndo(b) ==
    /\ coins' = ConnectCoins(coins, b)
    /\ meta' = b
    /\ heights' = Append(heights, b)
    /\ tip' = b
    /\ UNCHANGED undo

\* btc_chaindb_connect_block and the new chain state; an undo record is
\* written once, and only if the block consumes coins.
ConnectBlock(b) ==
    /\ coins' = ConnectCoins(coins, b)
    /\ undo' = IF Spent[b] # {} /\ undo[b] = NoUndo
               THEN [undo EXCEPT ![b] = [kind |-> "coins", coins |-> UndoOf(coins, b)]]
               ELSE undo
    /\ meta' = b
    /\ heights' = Append(heights, b)
    /\ tip' = b

\* The next block of the connect loop: the one above the tip towards target.
Step == Path[job.target][Height[tip] + 2]

Reconnect ==
    /\ job.phase = "reconnect"
    /\ VerifyContext(Step, "genuine")
    /\ ConnectBlock(Step)
    /\ job' = Goto(job, Climb(job, Step))
    /\ UNCHANGED <<index, tips, invalid, orphans>>

\* A block to reconnect is invalid, and with it the rest of the connect list.
\* Under CHECK, when restoring, this aborts the process instead.
ReconnectFails ==
    /\ job.phase = "reconnect"
    /\ ~job.restoring
    /\ ~VerifyContext(Step, "genuine")
    /\ invalid' = invalid \cup {Path[job.target][i] : i \in Height[Step] + 1 .. Len(Path[job.target])}
    /\ job' = GiveUp(job)
    /\ UNCHANGED <<index, tips, coins, undo, meta, heights, tip, orphans>>

ConnectTip ==
    /\ job.phase = "final"
    /\ VerifyContext(job.entry, job.body)
    /\ SaveEntry(job.entry)
    /\ ConnectBlock(job.entry)
    /\ job' = Goto(job, "resolve")
    /\ UNCHANGED <<invalid, orphans>>

ConnectTipFails ==
    /\ job.phase = "final"
    /\ ~VerifyContext(job.entry, job.body)
    /\ invalid' = invalid \cup Blamed(job.entry, job.body)
    /\ job' = GiveUp(job)
    /\ UNCHANGED <<index, tips, coins, undo, meta, heights, tip, orphans>>

\* btc_chain_handle_orphans: go on with the orphan on top of the new entry.
HandleOrphans ==
    /\ job.phase = "resolve"
    /\ \/ \E i \in NextOrphan(job.entry) :
             /\ job' = Connecting(orphans[i].hash, orphans[i].body)
             /\ orphans' = RemoveAt(orphans, i)
       \/ /\ NextOrphan(job.entry) = {}
          /\ job' = Idle
          /\ UNCHANGED orphans
    /\ UNCHANGED <<index, tips, coins, undo, meta, heights, tip, invalid>>

-----------------------------------------------------------------------------
\* The process dies and btc_chain_open rebuilds the memory from the disk.
Crash ==
    /\ heights' = Path[meta]
    /\ tip' = meta
    /\ invalid' = {}
    /\ orphans' = <<>>
    /\ job' = Idle
    /\ UNCHANGED disk

Proceed == \* the steps of a call in progress
    \/ SaveAlternate \/ SetBestChain
    \/ Disconnect \/ Reconnect \/ ReconnectFails
    \/ ConnectTip \/ ConnectTipFails
    \/ HandleOrphans

Receive(b, body) ==
    \/ AddIgnored(b, body)
    \/ AddInvalidChild(b)
    \/ AddInsane(b, body)
    \/ StoreOrphan(b, body)
    \/ AddBlock(b, body)

Next ==
    \/ \E b \in Block, body \in Body : Receive(b, body)
    \/ Proceed
    \/ Crash

Spec == Init /\ [][Next]_vars

\* btc_chain_add is a function call: once in it, the process goes on to its
\* return, unless it crashes.
CallSpec == Spec /\ WF_vars(Proceed)

\* A network in which every block, in the form its hash commits to, is
\* offered again for as long as the node lacks it (the node's peers announce
\* their chains to it whenever it connects).
DeliverySpec ==
    /\ CallSpec
    /\ \A b \in Block : SF_vars(AddBlock(b, "genuine"))

-----------------------------------------------------------------------------
(* Safety.                                                                 *)

\* The coins on disk are those of a replay of the chain that ends in the tip
\* on disk: after every committed batch of btc_chaindb_save, reconnect and
\* disconnect, half way through a reorganization, and after a crash.
CoinsReplayTip == coins = Replay[meta]

\* Memory and disk agree on the chain: chain->tip is the hash under meta_key,
\* db->heights is its path from the genesis block, and load_index would find
\* all of its blocks.
ChainOnDisk ==
    /\ tip = meta
    /\ heights = Path[tip]
    /\ Range(heights) \subseteq index
    /\ \A b \in index \ {Genesis} : Prev[b] \in index

\* Only blocks that pass every rule, on the coins of their own ancestors, are
\* ever part of the main chain, whatever order blocks and forks arrived in.
MainIsGood == Good(tip)

\* An undo record is written once and reused at every later reconnect and
\* disconnect of the block, so it must hold the coins the block consumes
\* after its own ancestors; blocks on the main chain that consume coins have
\* one.
UndoSound ==
    /\ \A b \in Block \ {Genesis} : undo[b] # NoUndo =>
            undo[b].coins = UndoOf(Replay[Prev[b]], b)
    /\ \A i \in DOMAIN heights :
            Spent[heights[i]] # {} => undo[heights[i]] # NoUndo

\* The CHECKs that guard a reorganization never fail: a block to disconnect
\* is on top of db->heights and its undo record has a coin for every input
\* ("Undo coins should be empty"); a block to connect goes to the height
\* that is next; and going back to the old tip always succeeds.
NoAbort ==
    /\ job.phase = "disconnect" =>
            /\ tip # Genesis
            /\ Last(heights) = tip
            /\ \A o \in Spent[tip] : ReadUndo(tip)[o] # None
    /\ job.phase = "reconnect" => Len(heights) = Height[Step]
    /\ job.phase = "final" => Len(heights) = Height[job.entry]
    /\ job.phase = "reconnect" /\ job.restoring => VerifyContext(Step, "genuine")

\* A block that is valid together with all its ancestors is never remembered
\* as invalid, even if mutated copies of it (a wrong merkle root, a stripped
\* witness) or invalid relatives of it were received before.
InvalidSound == \A b \in invalid : ~Good(b)

\* orphan_map and orphan_prev: one orphan per hash, one per parent, none that
\* is already indexed, and, between calls, none whose parent is indexed (it
\* would never be resolved).
OrphansSound ==
    /\ \A i, j \in DOMAIN orphans : i # j =>
            /\ orphans[i].hash # orphans[j].hash
            /\ Prev[orphans[i].hash] # Prev[orphans[j].hash]
    /\ \A i \in DOMAIN orphans :
            /\ orphans[i].hash \notin index
            /\ job = Idle => Prev[orphans[i].hash] \notin index

\* Unless the process crashes, set_best_chain never leaves the node on a chain
\* with less work than the one it found: not if the reorganization fails half
\* way, on a block below the new one, whether or not it then goes back.
TipKeepsWork ==
    [][Proceed /\ job.phase \in Moving /\ job'.phase \notin Moving
            => Work[job.old] <= Work[tip']]_vars

\* Every call of btc_chain_add returns: reorganizing, failing, going back and
\* resolving orphans come to an end.
CallsReturn == job # Idle ~> job = Idle

\* The valid blocks with the most work.
Best == {b \in Block : Good(b) /\ \A g \in Block : Good(g) => Work[g] <= Work[b]}

\* Between calls, an indexed block has more work than the tip.  The process died
\* in a reorganization away from its chain; after the restart btc_chain_add
\* takes the block for a duplicate, and nothing compares it with the tip.
Stranded(b) == job = Idle /\ b \in index /\ Work[b] > Work[tip]

\* If the network keeps offering the blocks and crashes come to an end, the
\* node ends up with the work of the best valid chain, although mutated copies,
\* invalid blocks and orphans in any order are in between.  The one exception
\* is a best chain that a crash left stranded as a whole; while its last block
\* is still to come, the node gets there.
Converges ==
    <>[][~Crash]_vars =>
        \/ <>[](\A b \in Best : Work[b] <= Work[tip])
        \/ []<>(\E b \in Best : Stranded(b))

L == INSTANCE Ledger WITH head <- meta, utxo <- coins

\* What is on disk behaves as the abstract ledger: it moves one valid block
\* at a time, and neither a reorganization, nor one that fails half way, nor
\* a crash makes it forget or invent a coin.
RefinesLedger == L!LedgerSpec

-----------------------------------------------------------------------------
(* The inductive invariant behind CoinsReplayTip: where a call in progress *)
(* stands in the block tree.                                               *)

(***************************************************************************)
(* A call in progress knows where it is: the block being connected passed  *)
(* the checks of btc_chain_add and its parent is indexed; the fork is below *)
(* the tip, the old tip and the target; the chain of the old tip is good,  *)
(* so it can be restored; the disconnect loop is above the fork, the       *)
(* connect loop on the path to the target.                                 *)
(***************************************************************************)
JobSound ==
    /\ job.phase = "idle" => job = Idle
    /\ job.phase # "idle" =>
            /\ job.entry # Genesis
            /\ job.entry \notin BadPow \cup BadBody
            /\ Prev[job.entry] \in index
    /\ job.phase = "resolve" => job.entry \in index
    /\ job.phase \in Moving =>
            /\ Good(job.old)
            /\ job.old \in index
            /\ job.target = IF job.restoring THEN job.old ELSE Prev[job.entry]
            /\ IsAncestor(job.fork, tip)
            /\ IsAncestor(job.fork, job.old)
            /\ IsAncestor(job.fork, job.target)
    /\ job.phase = "disconnect" => tip # job.fork
    /\ job.phase = "reconnect" => tip # job.target /\ IsAncestor(tip, job.target)
    /\ job.phase = "final" => tip = Prev[job.entry]
    /\ job.phase \in {"connect", "final"} => ~job.restoring

\* set_best_chain is called for a block with more work than the tip it finds.
Heavier == job.phase \in Moving => Work[job.entry] > Work[job.old]

\* Indexed blocks and orphans passed the checks of btc_chain_add.
Screened ==
    /\ \A b \in index \ {Genesis} : b \notin BadPow \cup BadBody
    /\ \A i \in DOMAIN orphans :
            /\ orphans[i].hash # Genesis
            /\ orphans[i].hash \notin BadPow \cup BadBody

\* The block of a call in progress is not an orphan, and the only orphans whose
\* parent is indexed are those that handle_orphans is about to look at.
OrphansPlaced ==
    /\ OrphansSound
    /\ job.phase # "idle" => ~HasOrphan(job.entry)
    /\ \A i \in DOMAIN orphans : Prev[orphans[i].hash] \in index =>
            job.phase = "resolve" /\ job.entry = Prev[orphans[i].hash]

\* The inductive invariant: besides the properties of the chain it says at
\* every step where the call of btc_chain_add in progress stands.
IInv ==
    /\ TypeOK
    /\ ChainOnDisk
    /\ CoinsReplayTip
    /\ MainIsGood
    /\ UndoSound
    /\ InvalidSound
    /\ JobSound
    /\ Screened
=============================================================================
