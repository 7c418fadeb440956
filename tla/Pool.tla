-------------------------------- MODULE Pool --------------------------------
(***************************************************************************)
(* Block download, src/node/pool.c: the outbound peers and the one among   *)
(* them that is the loader, header-first sync up to the last checkpoint,   *)
(* getblocks sync after it, compact blocks, the requests in flight, stalls *)
(* and disconnections.                                                     *)
(*                                                                         *)
(* The peers are synced nodes of the same program.  What they answer is    *)
(* put on wire[p] when they are asked, and arrives in order, as late as    *)
(* may be, or never.  They share one chain, and a block is named by its    *)
(* height: which of several chains wins is the subject of ChainState.      *)
(*                                                                         *)
(* The node is a value s; each function of the code is an operator that    *)
(* returns the new one, and each callback of the event loop an action.     *)
(***************************************************************************)
EXTENDS Integers, Sequences, FiniteSets, SequencesExt

CONSTANTS
    Addr,            \* addresses of peers
    MaxOutbound,     \* pool->max_outbound
    Known,           \* height of the network's chain at the start
    Final,           \* the height it grows to
    Checkpoints,     \* heights of network->checkpoints
    SyncHeight,      \* height of the first block that is recent enough
    InvBatch,        \* 500 hashes in the answer to getblocks
    HeaderBatch,     \* 2000 headers in the answer to getheaders
    MaxInv,          \* BTC_NET_MAX_INV
    MaxBlockRequest, \* BTC_NET_MAX_BLOCK_REQUEST
    CompactDepth,    \* blocks below the tip that are sent as compact blocks
    MaxFaults        \* bound: how often a peer fails, or a peer completes its
                     \* handshake in the round that closes the loader

None == -1

LastCheckpoint == CHOOSE h \in Checkpoints : \A k \in Checkpoints : k <= h

ASSUME PoolAssumption ==
    /\ Known \in Nat /\ Final \in Nat /\ Known <= Final
    /\ Checkpoints \subseteq 1 .. Known /\ Checkpoints # {}
    /\ SyncHeight \in LastCheckpoint .. Final
    /\ InvBatch > 0 /\ HeaderBatch > 0 /\ MaxInv < MaxBlockRequest

VARIABLES
    s,            \* the node
    net,          \* height of the network's chain
    mute,         \* peers that fell silent
    faults,       \* how often it went wrong so far
    late          \* of a round that closed a peer: its reads are over

vars == <<s, net, mute, faults, late>>

\* peer fields: last is last_start and last_stop, gb and gh stand for gb_time
\* and gh_time not being -1, blocks is block_map, compact is compact_map.
NewPeer ==
    [state |-> "connecting", loader |-> FALSE, syncing |-> FALSE,
     last |-> <<None, None>>, gb |-> FALSE, gh |-> FALSE,
     blocks |-> {}, compact |-> {}]

\* pool->checkpoints and the header chain.  A history: bereft, its headers came
\* from a loader that OnComplete demoted while it was being closed.
NoHeaders ==
    [on |-> FALSE, tip |-> None, head |-> None, tail |-> None, next |-> None,
     bereft |-> FALSE]

Require(t, cond) == [t EXCEPT !.aborted = @ \/ ~cond]

\* btc_peer_close: the socket's on_close callback comes later.
Close(t, p) == [t EXCEPT !.peers[p].state = "dead", !.wire[p] = <<>>]

\* btc_peer_close because of what the peer sent.  A history: how often that was.
Punish(t, p) == [Close(t, p) EXCEPT !.punished = @ + 1]

-----------------------------------------------------------------------------
(* What the peers answer.                                                  *)

Answer(t, p, msgs) ==
    IF p \in mute \/ t.peers[p].state = "dead" THEN t
    ELSE [t EXCEPT !.wire[p] = @ \o msgs]

Run(from, to) == [i \in 1 .. (IF to < from THEN 0 ELSE to - from + 1) |-> from + i - 1]

Least(S) == CHOOSE x \in S : \A y \in S : x <= y

\* btc_pool_on_getblocks: up to the block before stop.
Inventory(start, stop) ==
    Run(start + 1,
        Least({net, start + InvBatch} \cup (IF stop > start THEN {stop - 1} ELSE {})))

AnswerGetBlocks(t, p, start, stop) ==
    LET hashes == Inventory(start, stop)
        full == Len(hashes) = InvBatch
    IN  IF hashes = <<>> THEN t
        ELSE Answer([t EXCEPT !.continue[p] = IF full THEN Last(hashes) ELSE @], p,
                    << [type |-> "inv", items |-> hashes] >>)

\* btc_pool_on_getheaders.
AnswerGetHeaders(t, p, start, stop) ==
    LET headers == Run(start + 1, Least({net, start + HeaderBatch, stop}))
    IN  IF headers = <<>> THEN t
        ELSE Answer(t, p, << [type |-> "headers", items |-> headers] >>)

BlockMsg(b) ==
    [type |-> IF b >= net - CompactDepth THEN "cmpctblock" ELSE "block", items |-> <<b>>]

\* btc_peer_flush_data: the hashes asked for, and the tip after hash_continue.
AnswerGetData(t, p, hashes) ==
    LET c == t.continue[p]
        tipInv == [type |-> "inv", items |-> <<net>>]
        msgs == FlattenSeq([i \in DOMAIN hashes |->
                    << BlockMsg(hashes[i]) >> \o
                        (IF hashes[i] = c THEN << tipInv >> ELSE <<>>)])
    IN  Answer([t EXCEPT !.continue[p] = IF c \in Range(hashes) THEN None ELSE @], p, msgs)

-----------------------------------------------------------------------------
(* Requests.                                                               *)

\* btc_peer_send_getblocks.
SendGetBlocks(t, p, start, stop) ==
    IF t.peers[p].last = <<start, stop>> THEN t
    ELSE AnswerGetBlocks([t EXCEPT !.peers[p].last = <<start, stop>>,
                                   !.peers[p].gb = TRUE], p, start, stop)

SendGetHeaders(t, p, start, stop) ==
    AnswerGetHeaders([t EXCEPT !.peers[p].gh = TRUE], p, start, stop)

\* btc_pool_request_blocks.
RequestBlocks(t, p, hashes) ==
    LET fresh == SelectSeq(hashes, LAMBDA b : b \notin t.map)
        u == [t EXCEPT !.map = @ \cup Range(fresh),
                       !.peers[p].blocks = @ \cup Range(fresh)]
    IN  IF t.peers[p].state # "connected" \/ fresh = <<>> THEN t
        ELSE IF Cardinality(u.peers[p].blocks) >= MaxBlockRequest THEN Punish(u, p)
        ELSE AnswerGetData(u, p, fresh)

\* btc_pool_is_syncable.
IsSyncable(t, p) ==
    t.peers[p].state = "connected" /\ (t.peers[p].loader \/ t.synced)

\* btc_pool_send_locator.
SendLocator(t, p) ==
    LET u == [t EXCEPT !.peers[p].syncing = TRUE]
    IN  IF ~IsSyncable(t, p) THEN t
        ELSE IF t.headers.on THEN SendGetHeaders(u, p, t.tip, t.headers.tip)
        ELSE SendGetBlocks(u, p, t.tip, None)

\* btc_pool_send_sync.
SendSync(t, p) == IF t.peers[p].syncing THEN t ELSE SendLocator(t, p)

\* btc_pool_resync.
Resync(t, force) ==
    FoldLeft(LAMBDA u, p : IF ~force /\ u.peers[p].syncing THEN u ELSE SendLocator(u, p),
             t, t.list)

\* btc_pool_resolve_orphan: up to the first block of the orphan's chain.
OrphanRoot(t, b) ==
    Least({r \in t.orphans : r <= b /\ \A k \in r .. b : k \in t.orphans})

ResolveOrphan(t, p, b) == SendGetBlocks(t, p, t.tip, OrphanRoot(t, b))

-----------------------------------------------------------------------------
(* The header chain.                                                       *)

\* btc_pool_next_tip.
NextTip(height) == Least({h \in Checkpoints : h > height})

\* btc_pool_reset_chain.
ResetChain(t) ==
    [t EXCEPT !.headers =
        IF t.tip >= LastCheckpoint THEN NoHeaders
        ELSE [NoHeaders EXCEPT !.on = TRUE, !.tip = NextTip(t.tip),
                               !.head = t.tip, !.tail = t.tip]]

\* btc_pool_resolve_headers.
ResolveHeaders(t, p) ==
    LET h == t.headers
        upto == Least({h.tail, h.next + MaxInv - 1})
    IN  IF h.next = None THEN t
        ELSE RequestBlocks([t EXCEPT !.headers.next = IF upto = h.tail THEN None ELSE upto + 1],
                           p, Run(h.next, upto))

\* btc_pool_shift_header.
ShiftHeader(t) ==
    LET h == t.headers
    IN  [t EXCEPT !.headers =
            IF h.head = h.tail THEN [h EXCEPT !.head = None, !.tail = None, !.next = None]
            ELSE [h EXCEPT !.head = @ + 1, !.next = IF @ = h.head THEN None ELSE @]]

\* btc_pool_resolve_chain.
ResolveChain(t, p, b) ==
    LET h == t.headers
        u == Require(t, h.head # None)
    IN  IF ~h.on \/ ~t.peers[p].loader \/ t.peers[p].state # "connected" THEN t
        ELSE IF h.head # b THEN Punish(u, p)
        ELSE IF b >= LastCheckpoint
             THEN SendGetBlocks([u EXCEPT !.headers = NoHeaders], p, b, None)
        ELSE IF b = h.tip
             THEN SendGetHeaders([u EXCEPT !.headers.tip = NextTip(b)], p, b, NextTip(b))
        ELSE ShiftHeader(ResolveHeaders(u, p))

-----------------------------------------------------------------------------
(* Messages from a peer.                                                   *)

\* btc_pool_on_blockinv.
OnInv(t, p, hashes) ==
    LET u == [t EXCEPT !.peers[p].gb = FALSE]
        asked == FoldLeft(LAMBDA v, i :
                    LET b == hashes[i]
                    IN  IF b \in v.orphans THEN ResolveOrphan(v, p, b)
                        ELSE IF b <= v.tip /\ i = Len(hashes)
                             THEN SendGetBlocks(v, p, b, None)
                        ELSE v,
                    u, Run(1, Len(hashes)))
    IN  IF (~t.synced /\ ~t.peers[p].loader) \/ t.headers.on THEN u
        ELSE RequestBlocks(asked, p,
                 SelectSeq(hashes, LAMBDA b : b > t.tip /\ b \notin t.orphans))

\* btc_pool_on_headers; the peers' headers always continue what was asked.
OnHeaders(t, p, headers) ==
    LET u == [t EXCEPT !.peers[p].gh = FALSE]
        h == t.headers
        c == Require(u, h.head # None)
        v == [c EXCEPT !.headers.next = IF @ = None THEN Head(headers) ELSE @,
                       !.headers.tail = Last(headers)]
    IN  IF ~h.on \/ ~t.peers[p].loader THEN u
        ELSE IF Head(headers) # h.tail + 1 THEN Punish(c, p)
        ELSE IF h.tip \in Range(headers) THEN ShiftHeader(ResolveHeaders(v, p))
        ELSE SendGetHeaders(v, p, Last(headers), h.tip)

\* btc_chain_add of a block that is valid: known ones are refused, one without
\* its parent is stored, one with it connects, and its descendants after it.
Reach(t, b) ==
    CHOOSE h \in b .. Final :
        (\A k \in b + 1 .. h : k \in t.orphans) /\ h + 1 \notin t.orphans

ChainAdd(t, b) ==
    IF b = t.tip + 1
    THEN LET h == Reach(t, b)
         IN  [t EXCEPT !.tip = h, !.orphans = @ \ (b .. h),
                       !.synced = @ \/ h >= SyncHeight]
    ELSE [t EXCEPT !.orphans = @ \cup {b}]

\* btc_pool_resolve_block.
ResolveBlock(t, p, b) ==
    [Require(t, b \in t.map) EXCEPT !.map = @ \ {b}, !.peers[p].blocks = @ \ {b}]

\* btc_pool_add_block.
AddBlock(t, p, b) ==
    LET u == ResolveBlock(t, p, b)
        v == ChainAdd(u, b)
        w == IF ~v.announced /\ v.synced THEN Resync([v EXCEPT !.announced = TRUE], FALSE)
             ELSE v
    IN  IF b \notin t.peers[p].blocks THEN Punish(t, p)
        ELSE IF b <= t.tip \/ b \in t.orphans THEN u
        ELSE IF b \in v.orphans
             THEN IF t.headers.on THEN v ELSE ResolveOrphan(v, p, b)
        ELSE ResolveChain(w, p, b)

\* btc_pool_on_cmpctblock: the transactions are all in the pool, some are
\* missing, or two have the same short id.
OnCmpctBlock(t, p, b, found) ==
    IF b \in t.peers[p].compact \/ b \in t.compact THEN t
    ELSE IF b \notin t.peers[p].blocks THEN Punish(t, p)
    ELSE CASE found = "all"   -> AddBlock(t, p, b)
           [] found = "clash" -> Answer(t, p, << [type |-> "block", items |-> <<b>>] >>)
           [] found = "some"  ->
                Answer([Require(t, b \notin t.compact) EXCEPT
                           !.compact = @ \cup {b}, !.peers[p].compact = @ \cup {b}],
                       p, << [type |-> "blocktxn", items |-> <<b>>] >>)

\* btc_pool_on_blocktxn.
OnBlockTxn(t, p, b) ==
    IF b \notin t.peers[p].compact THEN t
    ELSE AddBlock([Require(t, b \in t.compact) EXCEPT
                      !.compact = @ \ {b}, !.peers[p].compact = @ \ {b}], p, b)

-----------------------------------------------------------------------------
(* Peers.                                                                  *)

InList(t, p) == \E i \in DOMAIN t.list : t.list[i] = p

\* btc_pool_set_loader.
SetLoader(t, p) ==
    SendSync([Require(t, t.load = None /\ ~t.peers[p].loader) EXCEPT
                 !.load = p, !.peers[p].loader = TRUE], p)

\* btc_pool_create_outbound and btc_peers_add.
AddPeer(t, p) ==
    [Require(t, ~InList(t, p)) EXCEPT
        !.list = Append(@, p), !.peers[p] = NewPeer, !.wire[p] = <<>>,
        !.continue[p] = None]

\* btc_pool_add_loader; p: the address that btc_pool_get_addr finds.
AddLoader(t, p) ==
    IF t.list # <<>> THEN SetLoader(t, Head(t.list)) ELSE SetLoader(AddPeer(t, p), p)

\* btc_pool_fill_outbound; order: in which btc_pool_get_addr finds addresses.
FillOutbound(t, order) ==
    FoldLeft(LAMBDA u, p : IF InList(u, p) \/ Len(u.list) >= MaxOutbound THEN u
                           ELSE AddPeer(u, p),
             IF t.load = None THEN AddLoader(t, Head(order)) ELSE t, order)

\* btc_pool_on_complete.
OnComplete(t, p) ==
    LET u == SendSync([t EXCEPT !.peers[p].state = "connected"], p)
        l == u.load
        takes == /\ u.headers.on
                 /\ u.tip < u.headers.tail \/ u.peers[l].blocks # {}
        v == IF ~u.peers[p].loader /\ l # None /\ u.peers[l].state # "connected"
             THEN [u EXCEPT !.peers[l].loader = FALSE, !.load = None,
                            !.headers.bereft = takes,
                            !.bereaved = @ + (IF takes THEN 1 ELSE 0)]
             ELSE u
    IN  IF v.load = None THEN SetLoader(v, p) ELSE v

\* Slip: what the peer was asked for stays in pool->block_map.
RemovePeerOnly(t, p) ==
    [t EXCEPT !.list = SelectSeq(@, LAMBDA q : q # p),
              !.load = IF @ = p THEN None ELSE @,
              !.compact = @ \ t.peers[p].compact,
              !.peers[p] = NewPeer]

\* btc_pool_remove_peer.
RemovePeer(t, p) ==
    [Require(t, /\ t.peers[p].blocks \subseteq t.map
                /\ t.peers[p].compact \subseteq t.compact) EXCEPT
        !.list = SelectSeq(@, LAMBDA q : q # p),
        !.load = IF @ = p THEN None ELSE @,
        !.map = @ \ t.peers[p].blocks,
        !.compact = @ \ t.peers[p].compact,
        !.peers[p] = NewPeer]

\* Slip: the header chain of a loader outlives it.
CloseCallbackKeepsHeaders(t, p) ==
    LET u == RemovePeer(t, p)
    IN  IF u.synced /\ t.peers[p].blocks # {} THEN Resync(u, TRUE) ELSE u

\* btc_pool_on_close.
CloseCallback(t, p) ==
    LET u == RemovePeer(t, p)
        v == IF t.peers[p].loader /\ u.headers.on THEN ResetChain(u) ELSE u
    IN  IF v.synced /\ t.peers[p].blocks # {} THEN Resync(v, TRUE) ELSE v

-----------------------------------------------------------------------------
(* The event loop.                                                         *)

Live(p) == InList(s, p) /\ s.peers[p].state # "dead"

Init ==
    /\ s = ResetChain(
            [tip |-> 0, orphans |-> {}, synced |-> FALSE, announced |-> FALSE,
             list |-> <<>>, load |-> None, peers |-> [p \in Addr |-> NewPeer],
             map |-> {}, compact |-> {}, headers |-> NoHeaders,
             wire |-> [p \in Addr |-> <<>>], continue |-> [p \in Addr |-> None],
             punished |-> 0, bereaved |-> 0, aborted |-> FALSE])
    /\ net = Known
    /\ mute = {}
    /\ faults = 0
    /\ late = FALSE

\* btc_loop_poll: reads, until each socket has no more; then handle_ticks; then
\* handle_closed, which calls on_close for the sockets the round closed.
Reads == ~late /\ late' = FALSE

AfterReads ==
    late' = \E p \in Addr : InList(s', p) /\ s'.peers[p].state = "dead"

\* btc_pool_on_tick.
Tick ==
    /\ s.load = None \/ Len(s.list) < MaxOutbound
    /\ \E order \in SetToSeqs(Addr) : s' = FillOutbound(s, order)
    /\ s' # s
    /\ AfterReads
    /\ UNCHANGED <<net, mute, faults>>

\* The loader waits for its on_close when p completes its handshake.
DemotesDying(p) ==
    /\ s.peers[p].state = "verack"
    /\ s.load # None /\ s.load # p /\ s.peers[s.load].state = "dead"

\* btc_peer_on_connect, btc_peer_on_version and btc_peer_on_verack.
Handshake(p) ==
    /\ Reads
    /\ Live(p) /\ p \notin mute
    /\ \/ s.peers[p].state = "connecting" /\ s' = [s EXCEPT !.peers[p].state = "version"]
       \/ s.peers[p].state = "version" /\ s' = [s EXCEPT !.peers[p].state = "verack"]
       \/ s.peers[p].state = "verack" /\ s' = OnComplete(s, p)
    /\ faults' = faults + (IF DemotesDying(p) THEN 1 ELSE 0)
    /\ faults' <= MaxFaults
    /\ UNCHANGED <<net, mute>>

\* btc_pool_on_msg.
Deliver(p) ==
    /\ Reads
    /\ Live(p) /\ s.wire[p] # <<>>
    /\ LET m == Head(s.wire[p])
           t == [s EXCEPT !.wire[p] = Tail(@)]
       IN  \/ m.type = "inv" /\ s' = OnInv(t, p, m.items)
           \/ m.type = "headers" /\ s' = OnHeaders(t, p, m.items)
           \/ m.type = "block" /\ s' = AddBlock(t, p, Head(m.items))
           \/ /\ m.type = "cmpctblock"
              /\ \E found \in {"all", "some", "clash"} :
                    s' = OnCmpctBlock(t, p, Head(m.items), found)
           \/ m.type = "blocktxn" /\ s' = OnBlockTxn(t, p, Head(m.items))
    /\ UNCHANGED <<net, mute, faults>>

\* btc_peer_on_error, or the end of the data in btc_peer_on_data.
Hangup(p) ==
    /\ Reads
    /\ Live(p) /\ faults < MaxFaults
    /\ s' = Close(s, p)
    /\ faults' = faults + 1
    /\ UNCHANGED <<net, mute>>

\* What btc_peer_maybe_timeout waits for, of a peer all of whose answers have
\* come; a silent peer is closed in any case, for want of a pong.
Stalls(p) ==
    LET peer == s.peers[p]
    IN  \/ p \in mute
        \/ /\ peer.state = "connected"
           /\ \/ ~s.synced /\ peer.gb
              \/ peer.gh
              \/ peer.syncing /\ peer.loader /\ ~s.synced
              \/ (s.synced \/ ~peer.syncing) /\ (peer.blocks # {} \/ peer.compact # {})

\* btc_peer_on_tick.
Timeout(p) ==
    /\ Live(p) /\ s.wire[p] = <<>>
    /\ Stalls(p)
    /\ s' = Close(s, p)
    /\ AfterReads
    /\ UNCHANGED <<net, mute, faults>>

OnClose(p) ==
    /\ InList(s, p) /\ s.peers[p].state = "dead"
    /\ s' = CloseCallback(s, p)
    /\ AfterReads
    /\ mute' = mute \ {p}
    /\ UNCHANGED <<net, faults>>

-----------------------------------------------------------------------------
(* The network.                                                            *)

\* A peer stops in the middle of what it was sending.
FallSilent(p) ==
    /\ Live(p) /\ p \notin mute /\ faults < MaxFaults
    /\ mute' = mute \cup {p}
    /\ faults' = faults + 1
    /\ s' = [s EXCEPT !.wire[p] = <<>>]
    /\ UNCHANGED <<net, late>>

\* A new block, which the peers announce.
Grow ==
    /\ net < Final
    /\ net' = net + 1
    /\ s' = [s EXCEPT !.wire = [p \in Addr |->
                IF InList(s, p) /\ s.peers[p].state = "connected" /\ p \notin mute
                THEN Append(@[p], [type |-> "inv", items |-> <<net + 1>>])
                ELSE @[p]]]
    /\ UNCHANGED <<mute, faults, late>>

Next ==
    \/ Tick
    \/ Grow
    \/ \E p \in Addr :
          \/ Handshake(p) \/ Deliver(p) \/ Timeout(p) \/ OnClose(p)
          \/ Hangup(p) \/ FallSilent(p)

(***************************************************************************)
(* The loop of src/io/loop.c polls every socket and calls on_tick in each  *)
(* round; a peer that neither failed nor fell silent answers; the network  *)
(* grows to its final height.                                              *)
(***************************************************************************)
Fairness ==
    /\ WF_vars(Tick)
    /\ WF_vars(Grow)
    /\ \A p \in Addr :
            WF_vars(Handshake(p) \/ Deliver(p) \/ Timeout(p) \/ OnClose(p))

Spec == Init /\ [][Next]_vars /\ Fairness

-----------------------------------------------------------------------------
(* Properties.                                                             *)

\* No CHECK of pool.c fails: those on the loader, on the header chain, and
\* those that pool->block_map and pool->compact_map hold what the peers'
\* maps hold; and no block is asked of two peers at once.
RequestsExact ==
    /\ ~s.aborted
    /\ s.map = UNION {s.peers[p].blocks : p \in Addr}
    /\ s.compact = UNION {s.peers[p].compact : p \in Addr}
    /\ \A p, q \in Addr : p # q => s.peers[p].blocks \cap s.peers[q].blocks = {}
    /\ \A p \in Addr : s.peers[p].loader <=> s.load = p

\* While the header chain is in use, the blocks the loader was asked for are
\* those between the tip and the first header not asked for yet, so that the
\* header at the head is the one of the next block: whichever loaders failed
\* on the way, unless the chain was taken over from one that was being closed
\* (bereft), until the chain is reset.
HeadersLead ==
    LET h == s.headers
        asked == UNION {s.peers[p].blocks : p \in Addr}
    IN  h.on /\ ~h.bereft =>
            /\ s.orphans = {}
            /\ h.head \in {s.tip, s.tip + 1}
            /\ h.head <= h.tail /\ h.tail <= h.tip
            /\ h.head = s.tip + 1 =>
                    asked = s.tip + 1 .. (IF h.next = None THEN h.tail ELSE h.next - 1)

\* A peer that only answers what it is asked is closed for what it sent (an
\* unrequested block, a bad header chain, a header mismatch, more blocks than
\* BTC_NET_MAX_BLOCK_REQUEST) at most once for each time that on_complete
\* handed it the header chain of a loader that was being closed, and never
\* otherwise.
HonestPeersStay == s.punished <= s.bereaved

\* The node catches up with the network, whatever the peers that fail were
\* asked for before.
CatchesUp == <>(s.tip = Final)
=============================================================================
