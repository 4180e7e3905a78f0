---------------------------- MODULE MempoolGossip ---------------------------
(***************************************************************************)
(* How transactions travel between nodes (src/src/network/p2p.ts,          *)
(* src/src/core/node.ts, src/src/utils/serialization.ts): a client hands   *)
(* one to a node, which gossips it; miners confirm their whole pool and    *)
(* gossip the block; and a node that meets a peer asks for the peer's      *)
(* mempool over a stream.                                                  *)
(*                                                                         *)
(* Each node is the chain and the pool of a BlockChain object; balances    *)
(* and difficulty are those of the chain, which is what BlockChain shows   *)
(* of the cached ones.  A chain sync is one step here: its awaits are the  *)
(* subject of ChainSync.  A publication reaches any set of nodes, each at  *)
(* most once, in any order; a message that never arrives is lost.          *)
(***************************************************************************)
EXTENDS Ledger, Functions

CONSTANTS
    Nodes,
    Miners,          \* the nodes whose mining timer fires during the run
    Served,          \* the nodes to which clients post during the run
    MinerOf,         \* miner_addr of each node's bc-setup.json
    RestoredChain,   \* the chain every node starts with, from its disk
    Requests,        \* what clients post to /tx/send
    ForeignBlocks,   \* what other versions publish on the topic of blocks,
    ForeignTxs,      \* and on the topic of transactions,
    ForeignAnswers,  \* and what they answer about their mempool
    MEMPOOL_LIMIT,   \* transactions of one answer: 1000
    BlockTime,       \* from one block's timestamp to the next
    Slots,           \* names for the mempool requests that run at a time
    MaxChain,        \* bound on the length of the chain
    MaxFaults        \* bound on lost connections, timeouts, restarts,
                     \* messages and answers of other versions

VARIABLES
    chain, tx_pool,          \* the BlockChain object of each node
    syncing_mempool_peers,   \* peers each node has a request with
    request,                 \* the running calls of request_mempool
    connected,               \* connections, pairs of nodes
    gossip,                  \* published messages on their way to a node
    faults                   \* how many of those there were

vars == <<chain, tx_pool, syncing_mempool_peers, request, connected, gossip,
          faults>>

-----------------------------------------------------------------------------
(* serialization.ts *)

\* tx_id is not sent: the constructor computes it again from the fields.
TxFields == {"amount", "sender", "recipient", "fee", "timestamp", "nonce",
             "signature"}

HeaderFields == {"block_height", "difficulty", "prev_hash", "timestamp",
                 "seal"}

serialize_tx(tx) == [field \in TxFields |-> tx[field]]

\* deserialize_tx returns a transaction (it throws otherwise).
DeserializableTx(data) == TxFields \subseteq DOMAIN data

\* Mutant of deserialize_tx: all that came is kept.
deserialize_tx_with_rest(data) == data

\* Whatever else was sent is dropped.
deserialize_tx(data) == [field \in TxFields |-> data[field]]

deserialize_txs(list) == [i \in 1..Len(list) |-> deserialize_tx(list[i])]

\* nonce, block_hash and merkle_root are the seal.
serialize_block(b) ==
    [block_header |-> [block_height |-> b.height, difficulty |-> b.difficulty,
                       prev_hash |-> b.prev, timestamp |-> b.timestamp,
                       seal |-> b.sealed],
     transactions |-> [i \in 1..Len(b.txs) |-> serialize_tx(b.txs[i])]]

\* deserialize_block returns a block (it throws otherwise).
Deserializable(data) ==
    /\ {"block_header", "transactions"} \subseteq DOMAIN data
    /\ HeaderFields \subseteq DOMAIN data.block_header
    /\ \A i \in 1..Len(data.transactions) :
           DeserializableTx(data.transactions[i])

\* Mutant of deserialize_block: the transactions come in another order.
deserialize_block_reversed(data) ==
    LET txs == deserialize_txs(data.transactions)
    IN  [height |-> data.block_header.block_height,
         prev |-> data.block_header.prev_hash,
         difficulty |-> data.block_header.difficulty,
         timestamp |-> data.block_header.timestamp,
         txs |-> [i \in 1..Len(txs) |-> txs[Len(txs) + 1 - i]],
         sealed |-> data.block_header.seal]

deserialize_block(data) ==
    [height |-> data.block_header.block_height,
     prev |-> data.block_header.prev_hash,
     difficulty |-> data.block_header.difficulty,
     timestamp |-> data.block_header.timestamp,
     txs |-> deserialize_txs(data.transactions),
     sealed |-> data.block_header.seal]

StateOf(c) == LedgersOf(c)[Len(c)-1]

ASSUME GossipAssumption ==
    /\ Miners \subseteq Nodes /\ Served \subseteq Nodes
    /\ MinerOf \in [Nodes -> Accounts]
    /\ Requests \subseteq Tx
    /\ \A data \in ForeignBlocks : ~ Deserializable(data)
    /\ \A data \in ForeignTxs :
           DeserializableTx(data) => Restrict(data, TxFields) \in Tx
    /\ ForeignAnswers \subseteq Seq(ForeignTxs)
    /\ RestoredChain \in Seq(Block) /\ RestoredChain # <<>>
    /\ RestoredChain[1] = genesis_block
    /\ ValidChain(RestoredChain)
    /\ MEMPOOL_LIMIT \in Nat \ {0}
    /\ BlockTime \in Int
    /\ MaxChain \in Nat /\ MaxFaults \in Nat

-----------------------------------------------------------------------------
(* Messages and requests *)

TxMessage(n, tx)   == [to |-> n, topic |-> "transactions",
                       data |-> serialize_tx(tx)]
BlockMessage(n, b) == [to |-> n, topic |-> "blocks",
                       data |-> serialize_block(b)]

NoRequest == [pc |-> "none"]

\* A call of request_mempool by a node for a peer.  transactions is the
\* answer; basis, a history, is the chain the peer had when it gave it, and
\* empty if the peer runs another version.
Call(n, peer, pc) ==
    [pc |-> pc, by |-> n, peer |-> peer, transactions |-> <<>>, basis |-> <<>>]

Init ==
    /\ chain = [n \in Nodes |-> RestoredChain]
    /\ tx_pool = [n \in Nodes |-> <<>>]
    /\ syncing_mempool_peers = [n \in Nodes |-> {}]
    /\ request = [r \in Slots |-> NoRequest]
    /\ connected = {}
    /\ gossip = {}
    /\ faults = 0

network == <<syncing_mempool_peers, request, connected, faults>>

-----------------------------------------------------------------------------
(* Transactions *)

is_transaction_known(tx, pool, c) ==
    tx_id(tx) \in PendingIds(pool) \cup ConfirmedIds(c)

\* What came is a transaction, is not known and is admitted.  What
\* deserialize_tx and add_new_tx throw is caught for each transaction.
Accepted(data, pool, c) ==
    /\ DeserializableTx(data)
    /\ ~ is_transaction_known(deserialize_tx(data), pool, c)
    /\ Admissible(deserialize_tx(data), pool, c, StateOf(c))

\* The pool of a node after the entries of a list came one by one.
Offered(n, list) ==
    LET turn(i) == [pool \in Seq(Tx) |->
                       IF Accepted(list[i], pool, chain[n])
                       THEN Append(pool, deserialize_tx(list[i])) ELSE pool]
    IN  Iterate([i \in 1..Len(list) |-> turn(i)], tx_pool[n], Len(list))[Len(list)]

\* POST /tx/send.  A publication that throws reaches nobody.
SendTx(n) ==
    \E tx \in Requests, to \in SUBSET (Nodes \ {n}) :
        /\ n \in Served
        /\ Admissible(tx, tx_pool[n], chain[n], StateOf(chain[n]))
        /\ tx_pool' = [tx_pool EXCEPT ![n] = Append(@, tx)]
        /\ gossip' = gossip \cup {TxMessage(m, tx) : m \in to}
        /\ UNCHANGED <<chain, network>>

receive_tx(n) ==
    \E msg \in gossip :
        /\ msg.to = n /\ msg.topic = "transactions"
        /\ gossip' = gossip \ {msg}
        /\ tx_pool' = [tx_pool EXCEPT ![n] = Offered(n, <<msg.data>>)]
        /\ UNCHANGED <<chain, network>>

-----------------------------------------------------------------------------
(* Blocks *)

\* A node takes over a chain, and revalidates its pool.
Adopt(n, c) ==
    /\ chain' = [chain EXCEPT ![n] = c]
    /\ tx_pool' = [tx_pool EXCEPT ![n] =
                      revalidate_pending_transactions(@, c, StateOf(c))]

\* pub_block, on the mining timer.
MineBlock(n) ==
    LET c == chain[n]
        b == new_block(c, rebuild_next_difficulty(c), tx_pool[n], MinerOf[n],
                       get_latest_block(c).timestamp + BlockTime)
    IN  /\ n \in Miners
        /\ Len(c) < MaxChain
        /\ b.difficulty <= HASH_DIGITS
        /\ BlockApplies(b, StateOf(c))
        /\ chain' = [chain EXCEPT ![n] = Append(c, b)]
        /\ tx_pool' = [tx_pool EXCEPT ![n] = <<>>]
        /\ \E to \in SUBSET (Nodes \ {n}) :
               gossip' = gossip \cup {BlockMessage(m, b) : m \in to}
        /\ UNCHANGED network

\* Another version of the program publishes what is no block of this one, or
\* a transaction with fields missing or added.
ForeignMessage(n) ==
    \E msg \in [to: {n}, topic: {"blocks"}, data: ForeignBlocks]
                \cup [to: {n}, topic: {"transactions"}, data: ForeignTxs] :
        /\ faults < MaxFaults
        /\ faults' = faults + 1
        /\ gossip' = gossip \cup {msg}
        /\ UNCHANGED <<chain, tx_pool, syncing_mempool_peers, request, connected>>

\* A block that does not go on the tip makes the node sync with the
\* publisher, which is SyncChain.
receive_block(n) ==
    \E msg \in gossip :
        /\ msg.to = n /\ msg.topic = "blocks"
        /\ gossip' = gossip \ {msg}
        /\ LET c == chain[n]
               b == deserialize_block(msg.data)
           IN  IF /\ Deserializable(msg.data)
                  /\ b.height = get_latest_block(c).height + 1
                  /\ validate_next_block(b, get_latest_block(c), StateOf(c),
                                         rebuild_next_difficulty(c))
               THEN Adopt(n, Append(c, b))
               ELSE UNCHANGED <<chain, tx_pool>>
        /\ UNCHANGED network

\* A sync with a peer that is ahead, from the timer, gossip or identify.
SyncChain(n, peer) ==
    /\ {n, peer} \in connected
    /\ Len(chain[peer]) > Len(chain[n])
    /\ ValidChain(chain[peer])
    /\ Adopt(n, chain[peer])
    /\ UNCHANGED <<gossip, network>>

-----------------------------------------------------------------------------
(* Connections *)

Connect(n, m) ==
    /\ n # m
    /\ {n, m} \notin connected
    /\ connected' = connected \cup {{n, m}}
    /\ UNCHANGED <<chain, tx_pool, syncing_mempool_peers, request, gossip, faults>>

\* peer:disconnect, on both ends.
Disconnect(n, m) ==
    /\ {n, m} \in connected
    /\ faults < MaxFaults
    /\ faults' = faults + 1
    /\ connected' = connected \ {{n, m}}
    /\ syncing_mempool_peers' = [syncing_mempool_peers EXCEPT ![n] = @ \ {m},
                                                              ![m] = @ \ {n}]
    /\ UNCHANGED <<chain, tx_pool, request, gossip>>

\* The process of a node ends and starts again: the chain is on disk, the
\* pool, the calls and what was on its way to the node are gone.
Restart(n) ==
    /\ faults < MaxFaults
    /\ faults' = faults + 1
    /\ tx_pool' = [tx_pool EXCEPT ![n] = <<>>]
    /\ request' = [r \in Slots |->
                      IF request[r] # NoRequest /\ request[r].by = n
                      THEN NoRequest ELSE request[r]]
    /\ connected' = {link \in connected : n \notin link}
    /\ syncing_mempool_peers' =
           [m \in Nodes |-> IF m = n THEN {}
                            ELSE syncing_mempool_peers[m] \ {n}]
    /\ gossip' = {msg \in gossip : msg.to # n}
    /\ UNCHANGED chain

-----------------------------------------------------------------------------
(* Mempool sync *)

quiet == <<chain, gossip, connected>>

\* peer:identify calls this when the chain sync it awaits is over; by then
\* the connection may be lost again.
request_mempool(n, peer, r) ==
    /\ n # peer
    /\ request[r] = NoRequest
    /\ peer \notin syncing_mempool_peers[n]
    /\ request' = [request EXCEPT ![r] = Call(n, peer, "dialing")]
    /\ syncing_mempool_peers' =
           [syncing_mempool_peers EXCEPT ![n] = @ \cup {peer}]
    /\ UNCHANGED <<quiet, tx_pool, faults>>

Least(a, b) == IF a < b THEN a ELSE b

\* The transactions of a pool that one answer carries, as they are sent.
Shared(pool) ==
    [i \in 1..Least(Len(pool), MEMPOOL_LIMIT) |-> serialize_tx(pool[i])]

\* The handler of MEMPOOL_SYNC_PROTOCOL, when the stream opens.
ServeMempool(r) ==
    LET peer == request[r].peer
    IN  /\ request[r].pc = "dialing"
        /\ {request[r].by, peer} \in connected
        /\ request' = [request EXCEPT ![r].pc = "answered",
                                      ![r].transactions = Shared(tx_pool[peer]),
                                      ![r].basis = chain[peer]]
        /\ UNCHANGED <<quiet, tx_pool, syncing_mempool_peers, faults>>

\* The peer runs another version.
ForeignAnswer(r) ==
    /\ request[r].pc = "dialing"
    /\ {request[r].by, request[r].peer} \in connected
    /\ faults < MaxFaults
    /\ faults' = faults + 1
    /\ \E answer \in ForeignAnswers :
           request' = [request EXCEPT ![r].pc = "answered",
                                      ![r].transactions = answer,
                                      ![r].basis = <<>>]
    /\ UNCHANGED <<quiet, tx_pool, syncing_mempool_peers>>

\* Mutant of ReadMempool: the first transaction refused ends the loop.
ReadMempool_first_only(r) ==
    LET n == request[r].by
    IN  /\ request[r].pc = "answered"
        /\ tx_pool' = [tx_pool EXCEPT ![n] =
                          IF request[r].transactions = <<>> THEN @
                          ELSE Offered(n, <<Head(request[r].transactions)>>)]
        /\ request' = [request EXCEPT ![r] = Call(n, request[r].peer, "closing")]
        /\ UNCHANGED <<quiet, syncing_mempool_peers, faults>>

\* The loop over the answer, which no await interrupts.
ReadMempool(r) ==
    LET n == request[r].by
    IN  /\ request[r].pc = "answered"
        /\ tx_pool' = [tx_pool EXCEPT ![n] = Offered(n, request[r].transactions)]
        /\ request' = [request EXCEPT ![r] = Call(n, request[r].peer, "closing")]
        /\ UNCHANGED <<quiet, syncing_mempool_peers, faults>>

\* A dial or a read throws: the connection is gone, or it takes too long.
RequestFails(r) ==
    LET n == request[r].by
        peer == request[r].peer
    IN  /\ request[r].pc \in {"dialing", "answered"}
        /\ \/ {n, peer} \notin connected /\ UNCHANGED faults
           \/ faults < MaxFaults /\ faults' = faults + 1
        /\ request' = [request EXCEPT ![r] = Call(n, peer, "failed")]
        /\ UNCHANGED <<quiet, tx_pool, syncing_mempool_peers>>

\* Mutant of FinishRequest: an exit that forgets the peer.
FinishRequest_keeps_flag(r) ==
    /\ request[r].pc \in {"closing", "failed"}
    /\ request' = [request EXCEPT ![r] = NoRequest]
    /\ UNCHANGED <<quiet, tx_pool, syncing_mempool_peers, faults>>

\* The end of the finally block, after the stream is closed.
FinishRequest(r) ==
    /\ request[r].pc \in {"closing", "failed"}
    /\ syncing_mempool_peers' =
           [syncing_mempool_peers EXCEPT ![request[r].by] = @ \ {request[r].peer}]
    /\ request' = [request EXCEPT ![r] = NoRequest]
    /\ UNCHANGED <<quiet, tx_pool, faults>>

-----------------------------------------------------------------------------

NodeStep(n) ==
    \/ SendTx(n) \/ receive_tx(n)
    \/ MineBlock(n) \/ ForeignMessage(n) \/ receive_block(n)
    \/ Restart(n)
    \/ \E m \in Nodes : SyncChain(n, m) \/ Connect(n, m) \/ Disconnect(n, m)

RequestStep(r) ==
    \/ ServeMempool(r) \/ ForeignAnswer(r) \/ ReadMempool(r)
    \/ RequestFails(r) \/ FinishRequest(r)

Next ==
    \/ \E n \in Nodes : NodeStep(n)
    \/ \E n, m \in Nodes, r \in Slots : request_mempool(n, m, r)
    \/ \E r \in Slots : RequestStep(r)

Spec == Init /\ [][Next]_vars

-----------------------------------------------------------------------------
(* Properties *)

\* A transaction on the wire, of this version or another.
SentTx == Tx \cup ForeignTxs

RequestType ==
    {NoRequest} \cup
    [pc: {"dialing", "answered", "closing", "failed"}, by: Nodes,
     peer: Nodes, transactions: Seq(SentTx), basis: Seq(Block)]

\* Every variable has its type: whatever other versions send, a chain and a
\* pool hold what deserialize_tx makes of it, with the fields of this version
\* and no other (serialization.ts:46, :103).
TypeOK ==
    /\ chain \in [Nodes -> Seq(Block)]
    /\ \A n \in Nodes : chain[n] # <<>>
    /\ tx_pool \in [Nodes -> Seq(Tx)]
    /\ syncing_mempool_peers \in [Nodes -> SUBSET Nodes]
    /\ request \in [Slots -> RequestType]
    /\ \A link \in connected : link \subseteq Nodes /\ Cardinality(link) = 2
    /\ \A msg \in gossip : msg.to \in Nodes
    /\ faults \in 0..MaxFaults

\* p2p.ts:425: a peer in syncing_mempool_peers is not asked.  Whenever one is
\* in it, a call that will remove it is under way, so no peer is barred for
\* good, although a disconnect removes it in the middle of a call and lets a
\* second one start beside the first.
FlagHasRequest ==
    \A n \in Nodes : \A peer \in syncing_mempool_peers[n] :
        \E r \in Slots : /\ request[r] # NoRequest
                         /\ request[r].by = n
                         /\ request[r].peer = peer

\* A gossiped block fits on every node whose tip is its parent, whatever is
\* pending there and in whatever order messages arrive: p2p.ts:266 appends it
\* at once.
GossipedBlockFits ==
    \A msg \in gossip :
        msg.topic = "blocks" /\ Deserializable(msg.data) =>
          LET b == deserialize_block(msg.data)
              c == chain[msg.to]
          IN  b.prev = block_hash(get_latest_block(c)) =>
                validate_next_block(b, get_latest_block(c), StateOf(c),
                                    rebuild_next_difficulty(c))

\* p2p.ts:249 refuses a transaction that overtakes the one before it and
\* never asks for it again; request_mempool repairs that.  An answer given on
\* the chain the reader still has is taken whole, if nothing else is pending
\* at the reader: it is in order, and no transaction is cut off from one it
\* depends on.
MempoolHealsGaps ==
    [][\A r \in Slots :
         LET n == request[r].by
             answer == request[r].transactions
         IN  /\ request[r].pc = "answered"
             /\ request'[r].pc = "closing"
             /\ request[r].basis = chain[n]
             /\ Range(tx_pool[n]) \subseteq Range(answer)
             => Range(tx_pool'[n]) = Range(answer)]_vars

=============================================================================
