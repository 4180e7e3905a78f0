------------------------------ MODULE ChainSync -----------------------------
(***************************************************************************)
(* How the nodes of a network bring each other's chains up to date         *)
(* (src/src/network/p2p.ts): blocks are gossiped when they are mined, and  *)
(* a node fetches the chain of a peer that is ahead, over a stream of      *)
(* requests and responses.                                                 *)
(*                                                                         *)
(* A node runs one JavaScript thread: it is interrupted only where it      *)
(* awaits.  So a sync is a process whose steps are Request, the peer's     *)
(* Serve, and Receive, which runs up to the next await; between them the   *)
(* node handles gossip, serves its own peers, loses connections, and both  *)
(* chains may change.                                                      *)
(*                                                                         *)
(* Every node is honest, so of a block only its place in the chain         *)
(* matters: a block is its hash, the sequence of the miners of all blocks  *)
(* up to it, and the genesis block is <<>>.  What validate_next_block      *)
(* checks besides is the concern of BlockChain.                            *)
(***************************************************************************)
EXTENDS Integers, Sequences, FiniteSets, SequencesExt

CONSTANTS
    Nodes,
    Miners,           \* the nodes that mine during the run
    Links,            \* pairs of nodes that discover each other
    RestoredChain,    \* the chain each node starts with, from its disk
    SYNC_BATCH_SIZE,
    MAX_ROUNDS,       \* p2p.ts:341
    MaxHeight,        \* bound on the height of mined blocks
    MaxQueue,         \* bound on the syncs a node has queued
    MaxFaults         \* bound on lost connections and timeouts

VARIABLES
    chain,            \* blockchain.chain of each node
    bytechain_peers,  \* identified peers of each node
    sync_queue,       \* peers of the syncs promised but not started
    syncing_peers, is_syncing,
    sync,             \* where the running sync of each node is
    streams,          \* the nodes whose sync stream is up
    response,         \* what the peer wrote on it
    connected,        \* connections, pairs of nodes
    gossip,           \* published blocks on their way to a node
    faults            \* lost connections and timeouts so far

vars == <<chain, bytechain_peers, sync_queue, syncing_peers, is_syncing, sync,
          streams, response, connected, gossip, faults>>

-----------------------------------------------------------------------------
(* Chains *)

GenesisHash == <<>>
Block == Seq(Nodes)

\* Every block names the hash of the block before it.
Linked(c) ==
    /\ c[1] = GenesisHash
    /\ \A i \in 2..Len(c) : \E n \in Nodes : c[i] = Append(c[i-1], n)

Latest(c) == c[Len(c)]
HeightOf(c) == Len(c) - 1

ASSUME ChainSyncAssumption ==
    /\ IsFiniteSet(Nodes)
    /\ Miners \subseteq Nodes
    /\ \A link \in Links : link \subseteq Nodes /\ Cardinality(link) = 2
    /\ RestoredChain \in [Nodes -> Seq(Block)]
    /\ \A n \in Nodes : RestoredChain[n] # <<>> /\ Linked(RestoredChain[n])
    /\ SYNC_BATCH_SIZE \in Nat \ {0}
    /\ MAX_ROUNDS \in Nat \ {0}
    /\ MaxHeight \in Nat /\ MaxQueue \in Nat \ {0} /\ MaxFaults \in Nat

-----------------------------------------------------------------------------
(* The state of a sync *)

NoResponse == [type |-> "none"]
Refused    == [type |-> "error"]

Idle == [pc |-> "idle"]

\* GET_HEIGHT was sent, at the start of a round.
AskHeight(peer, round) == [pc |-> "height", peer |-> peer, round |-> round]

\* GET_BLOCK_HASH was sent, for the middle of low..high.
AskHash(s, remote_height, low, high, common_height) ==
    [pc |-> "hash", peer |-> s.peer, round |-> s.round,
     remote_height |-> remote_height, low |-> low, high |-> high,
     common_height |-> common_height]

\* GET_BLOCKS was sent, for the blocks after the received ones.
AskBlocks(s, common_height, received_blocks) ==
    [pc |-> "blocks", peer |-> s.peer, round |-> s.round,
     remote_height |-> s.remote_height, common_height |-> common_height,
     received_blocks |-> received_blocks]

\* The finally block awaits the closing of the stream.
Closing(s) == [pc |-> "closing", peer |-> s.peer]

Waiting(n) == sync[n].pc \in {"height", "hash", "blocks"}

Middle(s) == (s.low + s.high) \div 2
Cursor(s) == s.common_height + 1 + Len(s.received_blocks)

Least(a, b) == IF a < b THEN a ELSE b

ToHeight(s) == Least(Cursor(s) + SYNC_BATCH_SIZE, s.remote_height + 1)

\* Mutant of Answer: the latest block is not served.
Answer_without_tip(c, s) ==
    CASE s.pc = "height" ->
           [type |-> "height", height |-> HeightOf(c), headHash |-> Latest(c)]
      [] s.pc = "hash" ->
           IF Middle(s) < Len(c)
           THEN [type |-> "hash", hash |-> c[Middle(s) + 1]] ELSE Refused
      [] s.pc = "blocks" ->
           LET from == Cursor(s)
               to   == Least(ToHeight(s), HeightOf(c))
           IN  IF from <= to
               THEN [type |-> "blocks", blocks |-> SubSeq(c, from + 1, to)]
               ELSE Refused

\* What a node with chain c answers to the request a sync waits for.
Answer(c, s) ==
    CASE s.pc = "height" ->
           [type |-> "height", height |-> HeightOf(c), headHash |-> Latest(c)]
      [] s.pc = "hash" ->
           IF Middle(s) < Len(c)
           THEN [type |-> "hash", hash |-> c[Middle(s) + 1]] ELSE Refused
      [] s.pc = "blocks" ->
           LET from == Cursor(s)
               to   == Least(ToHeight(s), Len(c))
           IN  IF from <= to
               THEN [type |-> "blocks", blocks |-> SubSeq(c, from + 1, to)]
               ELSE Refused

-----------------------------------------------------------------------------
(* Initial state *)

\* Every node has restored its chain, and nobody is connected.
Init ==
    /\ chain = RestoredChain
    /\ bytechain_peers = [n \in Nodes |-> {}]
    /\ sync_queue = [n \in Nodes |-> <<>>]
    /\ syncing_peers = [n \in Nodes |-> {}]
    /\ is_syncing = [n \in Nodes |-> FALSE]
    /\ sync = [n \in Nodes |-> Idle]
    /\ streams = {}
    /\ response = [n \in Nodes |-> NoResponse]
    /\ connected = {}
    /\ gossip = {}
    /\ faults = 0

\* sync_remote_chain chains syncs with these peers to the queue of n.
Enqueue(n, peers) ==
    /\ Len(sync_queue[n]) + Len(peers) <= MaxQueue
    /\ sync_queue' = [sync_queue EXCEPT ![n] = @ \o peers]

-----------------------------------------------------------------------------
(* Connections *)

\* A node dials a peer it discovers (libp2p, external).
Connect(link) ==
    /\ link \notin connected
    /\ connected' = connected \cup {link}
    /\ UNCHANGED <<chain, bytechain_peers, sync_queue, syncing_peers,
                   is_syncing, sync, streams, response, gossip, faults>>

\* The peer:identify event of a new connection of n with peer.
Identify(n, peer) ==
    /\ {n, peer} \in connected
    /\ peer \notin bytechain_peers[n]
    /\ bytechain_peers' = [bytechain_peers EXCEPT ![n] = @ \cup {peer}]
    /\ Enqueue(n, <<peer>>)
    /\ UNCHANGED <<chain, syncing_peers, is_syncing, sync, streams, response,
                   connected, gossip, faults>>

\* Mutant of Disconnect: the handler also resets the flag.
Disconnect_resets_flag(link) ==
    /\ link \in connected
    /\ faults < MaxFaults
    /\ connected' = connected \ {link}
    /\ bytechain_peers' = [n \in Nodes |-> bytechain_peers[n] \ link]
    /\ syncing_peers' = [n \in Nodes |-> syncing_peers[n] \ link]
    /\ is_syncing' = [n \in Nodes |-> is_syncing[n] /\ n \notin link]
    /\ streams' = streams \ link
    /\ faults' = faults + 1
    /\ UNCHANGED <<chain, sync_queue, sync, response, gossip>>

\* A connection is lost; both ends handle peer:disconnect.
Disconnect(link) ==
    /\ link \in connected
    /\ faults < MaxFaults
    /\ connected' = connected \ {link}
    /\ bytechain_peers' = [n \in Nodes |-> IF n \in link
                                           THEN bytechain_peers[n] \ link
                                           ELSE bytechain_peers[n]]
    /\ syncing_peers' = [n \in Nodes |-> IF n \in link
                                         THEN syncing_peers[n] \ link
                                         ELSE syncing_peers[n]]
    /\ streams' = {n \in streams : {n, sync[n].peer} # link}
    /\ faults' = faults + 1
    /\ UNCHANGED <<chain, sync_queue, is_syncing, sync, response, gossip>>

-----------------------------------------------------------------------------
(* Mining and block gossip *)

\* pub_block mines unless a sync runs, and publishes to the nodes that gossip
\* happens to reach.
pub_block(n, reached) ==
    LET b == Append(Latest(chain[n]), n)
    IN  /\ ~ is_syncing[n]
        /\ Len(b) <= MaxHeight
        /\ chain' = [chain EXCEPT ![n] = Append(@, b)]
        /\ gossip' = gossip \cup {[to |-> m, from |-> n, block |-> b] :
                                     m \in reached}
        /\ UNCHANGED <<bytechain_peers, sync_queue, syncing_peers, is_syncing,
                       sync, streams, response, connected, faults>>

\* Mutant of receive_block: blocks are also appended during a sync.
receive_block_always(msg) ==
    LET longer == Append(chain[msg.to], msg.block)
    IN  /\ gossip' = gossip \ {msg}
        /\ chain' = IF Linked(longer)
                    THEN [chain EXCEPT ![msg.to] = longer] ELSE chain
        /\ UNCHANGED <<sync_queue, bytechain_peers, syncing_peers, is_syncing,
                       sync, streams, response, connected, faults>>

\* The handler of a gossiped block: append it, or sync with its publisher if
\* it is ahead.  During a sync it is dropped.
receive_block(msg) ==
    LET n == msg.to
        local_height == HeightOf(chain[n])
        longer == Append(chain[n], msg.block)
        Appends == Len(msg.block) = local_height + 1 /\ Linked(longer)
    IN  /\ gossip' = gossip \ {msg}
        /\ chain' = IF ~ is_syncing[n] /\ Appends
                    THEN [chain EXCEPT ![n] = longer] ELSE chain
        /\ IF ~ is_syncing[n] /\ ~ Appends /\ Len(msg.block) > local_height
           THEN Enqueue(n, <<msg.from>>)
           ELSE UNCHANGED sync_queue
        /\ UNCHANGED <<bytechain_peers, syncing_peers, is_syncing, sync,
                       streams, response, connected, faults>>

-----------------------------------------------------------------------------
(* Syncs *)

\* Every 30 s a sync with each identified peer is queued.
PeriodicSync(n) ==
    /\ bytechain_peers[n] # {}
    /\ \E peers \in SetToSeqs(bytechain_peers[n]) : Enqueue(n, peers)
    /\ UNCHANGED <<chain, bytechain_peers, syncing_peers, is_syncing, sync,
                   streams, response, connected, gossip, faults>>

\* perform_sync_remote_chain starts when the sync queued before it is over.
StartSync(n) ==
    LET peer == Head(sync_queue[n])
    IN  /\ sync[n] = Idle
        /\ sync_queue[n] # <<>>
        /\ sync_queue' = [sync_queue EXCEPT ![n] = Tail(@)]
        /\ IF {n, peer} \in connected /\ peer \notin syncing_peers[n]
           THEN /\ syncing_peers' = [syncing_peers EXCEPT ![n] = @ \cup {peer}]
                /\ is_syncing' = [is_syncing EXCEPT ![n] = TRUE]
                /\ sync' = [sync EXCEPT ![n] = AskHeight(peer, 0)]
                /\ streams' = streams \cup {n}
           ELSE UNCHANGED <<syncing_peers, is_syncing, sync, streams>>
        /\ UNCHANGED <<chain, bytechain_peers, response, connected, gossip,
                       faults>>

\* The peer's handler answers a request from the chain it has by then.
Serve(n) ==
    /\ Waiting(n)
    /\ response[n] = NoResponse
    /\ n \in streams
    /\ response' = [response EXCEPT ![n] = Answer(chain[sync[n].peer], sync[n])]
    /\ UNCHANGED <<chain, bytechain_peers, sync_queue, syncing_peers,
                   is_syncing, sync, streams, connected, gossip, faults>>

\* The sync of n goes on in state next, with its chain unchanged.
Proceed(n, next) ==
    /\ sync' = [sync EXCEPT ![n] = next]
    /\ UNCHANGED chain

Abort(n) == Proceed(n, Closing(sync[n]))

\* Mutant of ReceiveHeight: one block behind counts as up to date.
ReceiveHeight_one_behind(n) ==
    /\ response[n].type = "height"
    /\ IF response[n].height <= HeightOf(chain[n]) + 1
       THEN Abort(n)
       ELSE Proceed(n, AskHash(sync[n], response[n].height, 0,
                               HeightOf(chain[n]), -1))

ReceiveHeight(n) ==
    LET s == sync[n]
        remote_height == response[n].height
        local_height  == HeightOf(chain[n])
    IN  /\ response[n].type = "height"
        /\ IF remote_height <= local_height
           THEN Abort(n)
           ELSE Proceed(n, AskHash(s, remote_height, 0, local_height, -1))

\* One turn of the binary search for the last common block.
ReceiveHash(n) ==
    LET s == sync[n]
        middle == Middle(s)
        same == response[n].hash = chain[n][middle + 1]
        low  == IF same THEN middle + 1 ELSE s.low
        high == IF same THEN s.high ELSE middle - 1
        common_height == IF same THEN middle ELSE s.common_height
    IN  /\ response[n].type = "hash"
        /\ IF low <= high
           THEN Proceed(n, AskHash(s, s.remote_height, low, high, common_height))
           ELSE IF common_height < 0
                THEN Abort(n)
                ELSE Proceed(n, AskBlocks(s, common_height, <<>>))

\* Mutants of Apply: the blocks are not validated; one round too many.
Apply_unchecked(n, common_height, blocks) ==
    LET s == sync[n]
        candidate == SubSeq(chain[n], 1, common_height + 1) \o blocks
    IN  /\ chain' = [chain EXCEPT ![n] = candidate]
        /\ sync' = [sync EXCEPT ![n] = Closing(s)]
Apply_extra_round(n, common_height, blocks) ==
    LET s == sync[n]
        candidate == SubSeq(chain[n], 1, common_height + 1) \o blocks
    IN  IF Len(candidate) > Len(chain[n]) /\ Linked(candidate)
        THEN /\ chain' = [chain EXCEPT ![n] = candidate]
             /\ sync' = [sync EXCEPT ![n] =
                           IF s.round < MAX_ROUNDS
                           THEN AskHeight(s.peer, s.round + 1)
                           ELSE Closing(s)]
        ELSE Abort(n)

\* replace_chain_from, and the next round if it did not throw.
Apply(n, common_height, blocks) ==
    LET s == sync[n]
        candidate == SubSeq(chain[n], 1, common_height + 1) \o blocks
    IN  IF Len(candidate) > Len(chain[n]) /\ Linked(candidate)
        THEN /\ chain' = [chain EXCEPT ![n] = candidate]
             /\ sync' = [sync EXCEPT ![n] =
                           IF s.round + 1 < MAX_ROUNDS
                           THEN AskHeight(s.peer, s.round + 1)
                           ELSE Closing(s)]
        ELSE Abort(n)

ReceiveBlocks(n) ==
    LET s == sync[n]
        batch == response[n].blocks
        received_blocks == s.received_blocks \o batch
        next == AskBlocks(s, s.common_height, received_blocks)
    IN  /\ response[n].type = "blocks"
        /\ IF \/ Len(batch) # ToHeight(s) - Cursor(s)
              \/ \E i \in 1..Len(batch) : Len(batch[i]) # Cursor(s) + i - 1
           THEN Abort(n)
           ELSE IF Cursor(next) <= s.remote_height
                THEN Proceed(n, next)
                ELSE Apply(n, s.common_height, received_blocks)

ReceiveError(n) ==
    /\ response[n] = Refused
    /\ Abort(n)

\* The exchange returns, and the sync runs up to its next await.
Receive(n) ==
    /\ \/ ReceiveHeight(n)
       \/ ReceiveHash(n)
       \/ ReceiveBlocks(n)
       \/ ReceiveError(n)
    /\ response' = [response EXCEPT ![n] = NoResponse]
    /\ UNCHANGED <<bytechain_peers, sync_queue, syncing_peers, is_syncing,
                   streams, connected, gossip, faults>>

\* The exchange throws, and what the peer wrote is not read.
StreamFails(n) ==
    /\ Waiting(n)
    /\ Abort(n)
    /\ response' = [response EXCEPT ![n] = NoResponse]
    /\ UNCHANGED <<bytechain_peers, sync_queue, syncing_peers, is_syncing,
                   streams, connected, gossip>>

\* The connection under the stream was lost.
LoseStream(n) ==
    /\ n \notin streams
    /\ StreamFails(n)
    /\ UNCHANGED faults

Timeout(n) ==
    /\ faults < MaxFaults
    /\ StreamFails(n)
    /\ faults' = faults + 1

\* Mutant of FinishSync: the flag counts the peer that is done.
FinishSync_keeps_flag(n) ==
    /\ sync[n].pc = "closing"
    /\ syncing_peers' = [syncing_peers EXCEPT ![n] = @ \ {sync[n].peer}]
    /\ is_syncing' = [is_syncing EXCEPT ![n] = syncing_peers[n] # {}]
    /\ sync' = [sync EXCEPT ![n] = Idle]
    /\ streams' = streams \ {n}
    /\ UNCHANGED <<chain, bytechain_peers, sync_queue, response, connected,
                   gossip, faults>>

\* The end of the finally block.
FinishSync(n) ==
    /\ sync[n].pc = "closing"
    /\ syncing_peers' = [syncing_peers EXCEPT ![n] = @ \ {sync[n].peer}]
    /\ is_syncing' = [is_syncing EXCEPT ![n] = syncing_peers'[n] # {}]
    /\ sync' = [sync EXCEPT ![n] = Idle]
    /\ streams' = streams \ {n}
    /\ UNCHANGED <<chain, bytechain_peers, sync_queue, response, connected,
                   gossip, faults>>

-----------------------------------------------------------------------------

Next ==
    \/ \E link \in Links : Connect(link) \/ Disconnect(link)
    \/ \E n \in Nodes, peer \in Nodes : Identify(n, peer)
    \/ \E n \in Miners : \E reached \in SUBSET (Nodes \ {n}) :
          pub_block(n, reached)
    \/ \E msg \in gossip : receive_block(msg)
    \/ \E n \in Nodes :
          \/ PeriodicSync(n)
          \/ StartSync(n)
          \/ Serve(n)
          \/ Receive(n)
          \/ LoseStream(n)
          \/ Timeout(n)
          \/ FinishSync(n)

Spec == Init /\ [][Next]_vars

\* Discovery and the timers keep firing, and what was started goes on: peers
\* answer, responses are read, streams close.
Fairness ==
    /\ \A link \in Links : WF_vars(Connect(link))
    /\ \A n \in Nodes, peer \in Nodes : WF_vars(Identify(n, peer))
    /\ \A n \in Nodes :
          /\ WF_vars(PeriodicSync(n))
          /\ WF_vars(StartSync(n))
          /\ WF_vars(Serve(n))
          /\ WF_vars(Receive(n))
          /\ WF_vars(LoseStream(n))
          /\ WF_vars(FinishSync(n))

LiveSpec == Spec /\ Fairness

-----------------------------------------------------------------------------
(* Properties *)

Asked ==
    [pc: {"height"}, peer: Nodes, round: 0..MAX_ROUNDS-1]
      \cup [pc: {"hash"}, peer: Nodes, round: 0..MAX_ROUNDS-1,
            remote_height: Nat, low: Nat, high: Nat, common_height: Int]
      \cup [pc: {"blocks"}, peer: Nodes, round: 0..MAX_ROUNDS-1,
            remote_height: Nat, common_height: Nat, received_blocks: Seq(Block)]

Ended == [pc: {"closing"}, peer: Nodes]

Response ==
    {Refused}
      \cup [type: {"height"}, height: Nat, headHash: Block]
      \cup [type: {"hash"}, hash: Block]
      \cup [type: {"blocks"}, blocks: Seq(Block)]

\* Every variable has its type.
TypeOK ==
    /\ chain \in [Nodes -> Seq(Block)]
    /\ bytechain_peers \in [Nodes -> SUBSET Nodes]
    /\ sync_queue \in [Nodes -> Seq(Nodes)]
    /\ syncing_peers \in [Nodes -> SUBSET Nodes]
    /\ is_syncing \in [Nodes -> BOOLEAN]
    /\ sync \in [Nodes -> {Idle} \cup Asked \cup Ended]
    /\ streams \subseteq Nodes
    /\ response \in [Nodes -> {NoResponse} \cup Response]
    /\ connected \subseteq SUBSET Nodes
    /\ gossip \subseteq [to: Nodes, from: Nodes, block: Block]
    /\ faults \in 0..MaxFaults

\* is_syncing is up exactly while a sync runs: a disconnect that empties
\* syncing_peers in the middle does not let mining and gossip back in, and no
\* way out of a sync leaves the flag up.
SyncingFlag == \A n \in Nodes : is_syncing[n] <=> sync[n] # Idle

\* What a sync learned about its own chain before an await holds after it:
\* the common block is still there, and the peer's chain is still longer, so
\* "Downloaded chain was not applied" (p2p.ts:406) never happens.
BasisHolds ==
    \A n \in Nodes :
        /\ sync[n].pc \in {"hash", "blocks"} =>
             sync[n].remote_height > HeightOf(chain[n])
        /\ sync[n].pc = "blocks" => sync[n].common_height < Len(chain[n])

\* A peer that promised a height never refuses a request below it and never
\* serves an incomplete batch, although its chain may be replaced between two
\* answers: replacements are longer.
AnswersComplete ==
    \A n \in Nodes :
        /\ response[n] # Refused
        /\ response[n].type = "blocks" =>
             Len(response[n].blocks) = ToHeight(sync[n]) - Cursor(sync[n])

\* Every sync ends, so the node mines again.
SyncEnds == \A n \in Nodes : is_syncing[n] ~> ~ is_syncing[n]

\* Once mining stops and connections are stable, linked nodes come to the
\* same height, whatever gossip was lost or dropped during a sync.
HeightsConverge ==
    <>[](\A link \in Links : \A n, m \in link :
            HeightOf(chain[n]) = HeightOf(chain[m]))

=============================================================================
