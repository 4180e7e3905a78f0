--------------------------- MODULE ChainSyncProofs --------------------------
(***************************************************************************)
(* Proofs about ChainSync for every network, every restored chain, batch   *)
(* size and number of rounds, and any number of faults.                    *)
(*                                                                         *)
(* The inductive invariant says of each node how its sync, the flag, the   *)
(* peer of the sync, the answer under way and its own chain fit together.  *)
(* A step changes this for one node alone, so it is proved per node.       *)
(*                                                                         *)
(* A second invariant, of SyncHistory, says what a sync knows of the chain *)
(* the latest answer was read from: the hashes compared so far place the   *)
(* common ancestor, and the blocks received are those of that chain.  Two  *)
(* linked chains that have one block in common agree up to it.             *)
(***************************************************************************)
EXTENDS SyncHistory, LoopProofs, FiniteSetTheorems, TLAPS

\* What a sync knows of the chain of its own node.
Basis(n) ==
    /\ sync[n].pc = "hash" =>
         /\ sync[n].remote_height > HeightOf(chain[n])
         /\ 0 <= sync[n].low
         /\ sync[n].low <= sync[n].high
         /\ sync[n].high <= HeightOf(chain[n])
         /\ sync[n].common_height < Len(chain[n])
    /\ sync[n].pc = "blocks" =>
         /\ sync[n].remote_height > HeightOf(chain[n])
         /\ sync[n].common_height < Len(chain[n])

NodeInv(n) ==
    /\ chain[n] # <<>> /\ Linked(chain[n])
    /\ is_syncing[n] <=> sync[n] # Idle
    /\ sync[n] = Idle => syncing_peers[n] = {}
    /\ sync[n] # Idle => syncing_peers[n] \subseteq {sync[n].peer}
    /\ response[n] # NoResponse =>
         /\ Waiting(n)
         /\ response[n] # Refused => response[n].type = sync[n].pc
    /\ Basis(n)

Inv == TypeOK /\ \A n \in Nodes : NodeInv(n)

\* A step leaves what concerns this node, up to a lost peer.
Untouched(n) ==
    /\ chain'[n] = chain[n]
    /\ is_syncing'[n] = is_syncing[n]
    /\ sync'[n] = sync[n]
    /\ syncing_peers'[n] \subseteq syncing_peers[n]
    /\ response'[n] = response[n]

\* The chain of a node stays or is replaced by the rule.
ChainStep(n) ==
    \/ chain'[n] = chain[n]
    \/ Len(chain'[n]) > Len(chain[n]) /\ Linked(chain'[n])

\* What a step preserves, and what it may do to the chains.
StepOK == Inv' /\ \A n \in Nodes : ChainStep(n)

LEMMA UntouchedInv ==
    ASSUME NEW n \in Nodes, NodeInv(n), Untouched(n)
    PROVE  NodeInv(n)' /\ ChainStep(n)
BY DEF NodeInv, Untouched, Basis, Waiting, ChainStep

\* It is enough to look at the node a step is about.
LEMMA OneNode ==
    ASSUME Inv, TypeOK', NEW n \in Nodes, NodeInv(n)', ChainStep(n),
           \A m \in Nodes \ {n} : Untouched(m)
    PROVE  StepOK
<1>1. ASSUME NEW m \in Nodes PROVE NodeInv(m)' /\ ChainStep(m)
  BY UntouchedInv DEF Inv
<1>. QED  BY <1>1 DEF StepOK, Inv

LEMMA NoNode ==
    ASSUME Inv, TypeOK', \A m \in Nodes : Untouched(m)
    PROVE  StepOK
<1>1. ASSUME NEW m \in Nodes PROVE NodeInv(m)' /\ ChainStep(m)
  BY UntouchedInv DEF Inv
<1>. QED  BY <1>1 DEF StepOK, Inv

-----------------------------------------------------------------------------
(* Chains *)

\* A mined block extends a linked chain.
LEMMA LinkedAppend ==
    ASSUME NEW c \in Seq(Block), c # <<>>, Linked(c), NEW n \in Nodes
    PROVE  LET longer == Append(c, Append(Latest(c), n))
           IN  /\ longer \in Seq(Block) /\ Linked(longer)
               /\ Len(longer) = Len(c) + 1
<1>1. Latest(c) \in Block /\ Append(Latest(c), n) \in Block
  BY DEF Latest, Block
<1>. DEFINE longer == Append(c, Append(Latest(c), n))
<1>2. longer \in Seq(Block) /\ Len(longer) = Len(c) + 1
  BY <1>1
<1>3. /\ longer[Len(c) + 1] = Append(Latest(c), n)
      /\ \A i \in 1..Len(c) : longer[i] = c[i]
  BY <1>1
<1>4. ASSUME NEW i \in 2..Len(longer)
      PROVE  \E m \in Nodes : longer[i] = Append(longer[i-1], m)
  <2>1. CASE i = Len(c) + 1
    BY <1>2, <1>3, <2>1 DEF Latest
  <2>2. CASE i # Len(c) + 1
    BY <1>2, <1>3, <2>2 DEF Linked
  <2>. QED  BY <2>1, <2>2
<1>5. longer[1] = GenesisHash
  BY <1>3 DEF Linked
<1>. QED  BY <1>2, <1>4, <1>5 DEF Linked

LEMMA AppendType ==
    ASSUME NEW c \in Seq(Block), NEW b \in Block
    PROVE  /\ Append(c, b) \in Seq(Block) /\ Append(c, b) # <<>>
           /\ Len(Append(c, b)) = Len(c) + 1
<1>1. Append(c, b) \in Seq(Block) /\ Len(Append(c, b)) = Len(c) + 1
  OBVIOUS
<1>2. Len(c) \in Nat /\ Len(<<>>) = 0
  OBVIOUS
<1>3. Append(c, b) # <<>>
  BY <1>1, <1>2
<1>. QED  BY <1>1, <1>3

\* The chain a sync puts together is a sequence of blocks.
LEMMA CandidateType ==
    ASSUME NEW c \in Seq(Block), NEW h \in Nat, h < Len(c),
           NEW blocks \in Seq(Block)
    PROVE  SubSeq(c, 1, h + 1) \o blocks \in Seq(Block)
<1>1. SubSeq(c, 1, h + 1) \in Seq(Block)
  OBVIOUS
<1>. QED  BY <1>1

-----------------------------------------------------------------------------
(* The steps *)

\* Nobody syncs before the network is up.
LEMMA InitInv == Init => Inv
<1>. SUFFICES ASSUME Init PROVE Inv
  OBVIOUS
<1>1. TypeOK
  BY ChainSyncAssumption DEF Init, TypeOK
<1>2. ASSUME NEW n \in Nodes PROVE NodeInv(n)
  BY ChainSyncAssumption DEF Init, NodeInv, Basis, Idle
<1>. QED  BY <1>1, <1>2 DEF Inv

\* Connections and queues do not matter to a running sync.
LEMMA ConnectOK ==
    ASSUME Inv, NEW link \in Links, Connect(link)
    PROVE  StepOK
<1>1. TypeOK'
  BY ChainSyncAssumption DEF Inv, TypeOK, Connect
<1>. QED  BY <1>1, NoNode DEF Connect, Untouched

LEMMA DisconnectOK ==
    ASSUME Inv, NEW link \in Links, Disconnect(link)
    PROVE  StepOK
<1>1. TypeOK'
  <2>1. connected' \subseteq SUBSET Nodes /\ faults' \in 0..MaxFaults
    BY ChainSyncAssumption DEF Inv, TypeOK, Disconnect
  <2>2. /\ bytechain_peers' \in [Nodes -> SUBSET Nodes]
        /\ syncing_peers' \in [Nodes -> SUBSET Nodes]
    BY DEF Inv, TypeOK, Disconnect
  <2>. QED  BY <2>1, <2>2 DEF Inv, TypeOK, Disconnect
<1>2. \A m \in Nodes : Untouched(m)
  BY DEF Inv, TypeOK, Disconnect, Untouched
<1>. QED  BY <1>1, <1>2, NoNode

LEMMA EnqueueType ==
    ASSUME TypeOK, NEW n \in Nodes, NEW peers \in Seq(Nodes), Enqueue(n, peers)
    PROVE  sync_queue' \in [Nodes -> Seq(Nodes)]
<1>1. sync_queue[n] \o peers \in Seq(Nodes)
  BY DEF TypeOK
<1>. QED  BY <1>1 DEF TypeOK, Enqueue

LEMMA IdentifyOK ==
    ASSUME Inv, NEW n \in Nodes, NEW peer \in Nodes, Identify(n, peer)
    PROVE  StepOK
<1>0. <<peer>> \in Seq(Nodes) /\ Enqueue(n, <<peer>>)
  BY DEF Identify
<1>1. sync_queue' \in [Nodes -> Seq(Nodes)]
  BY <1>0, EnqueueType DEF Inv
<1>2. TypeOK'
  BY <1>1 DEF Inv, TypeOK, Identify
<1>. QED  BY <1>2, NoNode DEF Identify, Untouched

LEMMA PeriodicSyncOK ==
    ASSUME Inv, NEW n \in Nodes, PeriodicSync(n)
    PROVE  StepOK
<1>1. PICK peers \in SetToSeqs(bytechain_peers[n]) : Enqueue(n, peers)
  BY DEF PeriodicSync
<1>2. peers \in Seq(Nodes)
  <2>1. bytechain_peers[n] \subseteq Nodes /\ Cardinality(bytechain_peers[n]) \in Nat
    BY ChainSyncAssumption, FS_Subset, FS_CardinalityType DEF Inv, TypeOK
  <2>2. peers \in [1..Cardinality(bytechain_peers[n]) -> bytechain_peers[n]]
    BY <1>1 DEF SetToSeqs
  <2>. QED  BY <2>1, <2>2
<1>3. sync_queue' \in [Nodes -> Seq(Nodes)]
  BY <1>1, <1>2, EnqueueType DEF Inv
<1>4. TypeOK'
  BY <1>3 DEF Inv, TypeOK, PeriodicSync
<1>. QED  BY <1>4, NoNode DEF PeriodicSync, Untouched

\* A node mines only while it does not sync.
LEMMA pub_blockOK ==
    ASSUME Inv, NEW n \in Miners, NEW reached \in SUBSET (Nodes \ {n}),
           pub_block(n, reached)
    PROVE  StepOK
<1>. DEFINE b == Append(Latest(chain[n]), n)
<1>0. n \in Nodes /\ chain[n] \in Seq(Block) /\ NodeInv(n)
  BY ChainSyncAssumption DEF Inv, TypeOK
<1>1. /\ Append(chain[n], b) \in Seq(Block)
      /\ Linked(Append(chain[n], b))
      /\ Len(Append(chain[n], b)) = Len(chain[n]) + 1
  BY <1>0, LinkedAppend DEF NodeInv
<1>2. chain'[n] = Append(chain[n], b)
  BY <1>0 DEF Inv, TypeOK, pub_block
<1>3. b \in Block
  BY <1>0 DEF Latest, Block, NodeInv
<1>4. TypeOK'
  <2>1. chain' \in [Nodes -> Seq(Block)]
    BY <1>0, <1>1 DEF Inv, TypeOK, pub_block
  <2>2. gossip' \subseteq [to: Nodes, from: Nodes, block: Block]
    <3>1. ASSUME NEW m \in reached
          PROVE  [to |-> m, from |-> n, block |-> b]
                    \in [to: Nodes, from: Nodes, block: Block]
      BY <1>0, <1>3
    <3>2. gossip' = gossip \cup {[to |-> m, from |-> n, block |-> b] :
                                    m \in reached}
      BY DEF pub_block
    <3>. HIDE DEF b
    <3>. QED  BY <3>1, <3>2 DEF Inv, TypeOK
  <2>. QED  BY <2>1, <2>2 DEF Inv, TypeOK, pub_block
<1>5. sync[n] = Idle /\ sync'[n] = Idle
  BY <1>0 DEF NodeInv, pub_block
<1>6. NodeInv(n)' /\ ChainStep(n)
  BY <1>0, <1>1, <1>2, <1>5
     DEF pub_block, NodeInv, Basis, Waiting, Idle, ChainStep
<1>7. \A m \in Nodes \ {n} : Untouched(m)
  BY <1>0 DEF Inv, TypeOK, pub_block, Untouched
<1>. QED  BY <1>0, <1>4, <1>6, <1>7, OneNode

\* A gossiped block is appended only while the node does not sync.
LEMMA receive_blockOK ==
    ASSUME Inv, NEW msg \in gossip, receive_block(msg)
    PROVE  StepOK
<1>. DEFINE n == msg.to
            longer == Append(chain[n], msg.block)
<1>0. /\ n \in Nodes /\ msg.from \in Nodes /\ msg.block \in Block
      /\ chain[n] \in Seq(Block) /\ NodeInv(n)
  BY DEF Inv, TypeOK
<1>1. longer \in Seq(Block) /\ Len(longer) = Len(chain[n]) + 1 /\ longer # <<>>
  BY <1>0, AppendType
<1>2. \/ chain' = chain
      \/ ~ is_syncing[n] /\ Linked(longer) /\ chain' = [chain EXCEPT ![n] = longer]
  BY DEF receive_block
<1>3. sync_queue' \in [Nodes -> Seq(Nodes)]
  <2>1. CASE UNCHANGED sync_queue
    BY <2>1 DEF Inv, TypeOK
  <2>2. CASE Enqueue(n, <<msg.from>>)
    <3>1. <<msg.from>> \in Seq(Nodes)
      BY <1>0
    <3>. QED  BY <1>0, <2>2, <3>1, EnqueueType DEF Inv
  <2>. QED  BY <2>1, <2>2 DEF receive_block
<1>4. TypeOK'
  <2>1. chain' \in [Nodes -> Seq(Block)]
    BY <1>0, <1>1, <1>2 DEF Inv, TypeOK
  <2>. QED  BY <1>3, <2>1 DEF Inv, TypeOK, receive_block
<1>5. CASE chain' = chain
  BY <1>4, <1>5, NoNode DEF receive_block, Untouched
<1>6. CASE ~ is_syncing[n] /\ Linked(longer)
           /\ chain' = [chain EXCEPT ![n] = longer]
  <2>1. chain'[n] = longer /\ sync[n] = Idle
    BY <1>0, <1>6 DEF NodeInv, Inv, TypeOK
  <2>2. NodeInv(n)' /\ ChainStep(n)
    BY <1>0, <1>1, <1>6, <2>1
       DEF receive_block, NodeInv, Basis, Waiting, Idle, ChainStep
  <2>3. \A m \in Nodes \ {n} : Untouched(m)
    BY <1>0, <1>6 DEF Inv, TypeOK, receive_block, Untouched
  <2>. QED  BY <1>0, <1>4, <2>2, <2>3, OneNode
<1>. QED  BY <1>2, <1>5, <1>6

\* A sync starts from a clean state: the peer of the one before is gone.
LEMMA StartSyncOK ==
    ASSUME Inv, NEW n \in Nodes, StartSync(n)
    PROVE  StepOK
<1>. DEFINE peer == Head(sync_queue[n])
<1>0. NodeInv(n) /\ sync[n] = Idle /\ response[n] = NoResponse
  BY DEF Inv, StartSync, NodeInv, Waiting, Idle
<1>1. /\ sync_queue[n] \in Seq(Nodes) /\ sync_queue[n] # <<>>
      /\ peer \in Nodes /\ Tail(sync_queue[n]) \in Seq(Nodes)
  BY DEF Inv, TypeOK, StartSync
<1>2. AskHeight(peer, 0) \in Asked
  BY <1>1, ChainSyncAssumption DEF AskHeight, Asked
<1>3. TypeOK'
  <2>1. sync_queue' \in [Nodes -> Seq(Nodes)]
    BY <1>1 DEF Inv, TypeOK, StartSync
  <2>2. CASE UNCHANGED <<syncing_peers, is_syncing, sync, streams>>
    BY <2>1, <2>2 DEF Inv, TypeOK, StartSync
  <2>3. CASE /\ syncing_peers' = [syncing_peers EXCEPT ![n] = @ \cup {peer}]
             /\ is_syncing' = [is_syncing EXCEPT ![n] = TRUE]
             /\ sync' = [sync EXCEPT ![n] = AskHeight(peer, 0)]
             /\ streams' = streams \cup {n}
    <3>1. syncing_peers' \in [Nodes -> SUBSET Nodes]
      BY <1>1, <2>3 DEF Inv, TypeOK
    <3>2. sync' \in [Nodes -> {Idle} \cup Asked \cup Ended]
      BY <1>2, <2>3 DEF Inv, TypeOK
    <3>3. is_syncing' \in [Nodes -> BOOLEAN] /\ streams' \subseteq Nodes
      BY <2>3 DEF Inv, TypeOK
    <3>. QED  BY <2>1, <3>1, <3>2, <3>3 DEF Inv, TypeOK, StartSync
  <2>. QED  BY <2>2, <2>3 DEF StartSync
<1>4. NodeInv(n)' /\ ChainStep(n)
  <2>1. CASE UNCHANGED <<syncing_peers, is_syncing, sync, streams>>
    BY <1>0, <2>1 DEF StartSync, NodeInv, Basis, Waiting, ChainStep
  <2>2. CASE /\ syncing_peers' = [syncing_peers EXCEPT ![n] = @ \cup {peer}]
             /\ is_syncing' = [is_syncing EXCEPT ![n] = TRUE]
             /\ sync' = [sync EXCEPT ![n] = AskHeight(peer, 0)]
    <3>1. /\ syncing_peers'[n] = {peer} /\ is_syncing'[n] = TRUE
          /\ sync'[n] = AskHeight(peer, 0)
      BY <1>0, <2>2 DEF Inv, TypeOK, NodeInv
    <3>. HIDE DEF peer
    <3>. QED  BY <1>0, <3>1 DEF StartSync, NodeInv, Basis, Waiting, ChainStep,
                                AskHeight, Idle
  <2>. QED  BY <2>1, <2>2 DEF StartSync
<1>5. \A m \in Nodes \ {n} : Untouched(m)
  BY DEF Inv, TypeOK, StartSync, Untouched
<1>. QED  BY <1>3, <1>4, <1>5, OneNode

\* An answer has the type the request asks for.
LEMMA AnswerType ==
    ASSUME NEW c \in Seq(Block), c # <<>>, NEW s \in Asked
    PROVE  /\ Answer(c, s) \in Response
           /\ Answer(c, s) # NoResponse
           /\ Answer(c, s) # Refused => Answer(c, s).type = s.pc
<1>0. Len(c) \in Nat /\ Len(c) > 0
  OBVIOUS
<1>1. CASE s.pc = "height"
  <2>1. HeightOf(c) \in Nat /\ Latest(c) \in Block
    BY <1>0 DEF HeightOf, Latest
  <2>2. Answer(c, s) = [type |-> "height", height |-> HeightOf(c),
                        headHash |-> Latest(c)]
    BY <1>1 DEF Answer
  <2>. QED  BY <1>1, <2>1, <2>2 DEF Response, NoResponse, Refused
<1>2. CASE s.pc = "hash"
  <2>1. Middle(s) \in Nat
    BY <1>2 DEF Asked, Middle
  <2>2. CASE Middle(s) < Len(c)
    <3>1. c[Middle(s) + 1] \in Block
      BY <1>0, <2>1, <2>2
    <3>2. Answer(c, s) = [type |-> "hash", hash |-> c[Middle(s) + 1]]
      BY <1>2, <2>2 DEF Answer
    <3>. QED  BY <1>2, <3>1, <3>2 DEF Response, NoResponse, Refused
  <2>3. CASE ~ Middle(s) < Len(c)
    BY <1>2, <2>3 DEF Answer, Response, NoResponse, Refused
  <2>. QED  BY <2>2, <2>3
<1>3. CASE s.pc = "blocks"
  <2>. DEFINE from == Cursor(s)
              to   == Least(ToHeight(s), Len(c))
  <2>1. from \in Nat /\ to \in Int /\ to <= Len(c)
    <3>1. s.common_height \in Nat /\ s.received_blocks \in Seq(Block)
          /\ s.remote_height \in Nat
      BY <1>3 DEF Asked
    <3>2. Len(s.received_blocks) \in Nat
      BY <3>1
    <3>3. Cursor(s) \in Nat
      BY <3>1, <3>2 DEF Cursor
    <3>4. ToHeight(s) \in Int
      BY <3>1, <3>3, ChainSyncAssumption DEF ToHeight, Least
    <3>. QED  BY <1>0, <3>3, <3>4 DEF Least
  <2>2. CASE from <= to
    <3>1. SubSeq(c, from + 1, to) \in Seq(Block)
      BY <2>1, <2>2
    <3>2. Answer(c, s) = [type |-> "blocks", blocks |-> SubSeq(c, from + 1, to)]
      BY <1>3, <2>2 DEF Answer
    <3>. QED  BY <1>3, <3>1, <3>2 DEF Response, NoResponse, Refused
  <2>3. CASE ~ from <= to
    BY <1>3, <2>3 DEF Answer, Response, NoResponse, Refused
  <2>. QED  BY <2>2, <2>3
<1>. QED  BY <1>1, <1>2, <1>3 DEF Asked

\* A sync that waits has a request under way to a node.
LEMMA WaitingAsked ==
    ASSUME TypeOK, NEW n \in Nodes, Waiting(n)
    PROVE  sync[n] \in Asked /\ sync[n].peer \in Nodes
BY DEF TypeOK, Waiting, Idle, Ended, Asked

LEMMA ServeOK ==
    ASSUME Inv, NEW n \in Nodes, Serve(n)
    PROVE  StepOK
<1>. DEFINE c == chain[sync[n].peer]
<1>1. sync[n] \in Asked /\ sync[n].peer \in Nodes
  BY WaitingAsked DEF Inv, Serve
<1>2. c \in Seq(Block) /\ c # <<>>
  BY <1>1 DEF Inv, TypeOK, NodeInv
<1>3. /\ Answer(c, sync[n]) \in Response
      /\ Answer(c, sync[n]) # NoResponse
      /\ Answer(c, sync[n]) # Refused => Answer(c, sync[n]).type = sync[n].pc
  BY <1>1, <1>2, AnswerType
<1>4. response' = [response EXCEPT ![n] = Answer(c, sync[n])]
  BY DEF Serve
<1>. HIDE DEF c
<1>5. TypeOK'
  BY <1>3, <1>4 DEF Inv, TypeOK, Serve
<1>6. response'[n] = Answer(c, sync[n])
  BY <1>4 DEF Inv, TypeOK
<1>7. NodeInv(n)' /\ ChainStep(n)
  BY <1>3, <1>6 DEF Inv, Serve, NodeInv, Basis, Waiting, ChainStep
<1>8. \A m \in Nodes \ {n} : Untouched(m)
  BY <1>4 DEF Inv, TypeOK, Serve, Untouched
<1>. QED  BY <1>5, <1>7, <1>8, OneNode

-----------------------------------------------------------------------------
(* The steps of a running sync *)

\* The sync of n leaves an await for the state next, and what it does to its
\* chain is allowed and agrees with that state.
LEMMA ResumeOK ==
    ASSUME Inv, NEW n \in Nodes, Waiting(n),
           NEW next \in Asked \cup Ended, next.peer = sync[n].peer,
           sync' = [sync EXCEPT ![n] = next],
           response' = [response EXCEPT ![n] = NoResponse],
           UNCHANGED <<bytechain_peers, sync_queue, syncing_peers, is_syncing,
                       streams, connected, gossip>>,
           faults' \in 0..MaxFaults,
           NEW c \in Seq(Block), chain' = [chain EXCEPT ![n] = c],
           c # <<>>, Linked(c), c = chain[n] \/ Len(c) > Len(chain[n]),
           Basis(n)'
    PROVE  StepOK
<1>1. sync'[n] = next /\ response'[n] = NoResponse /\ chain'[n] = c
  BY DEF Inv, TypeOK
<1>2. next # Idle /\ sync[n] # Idle
  BY DEF Asked, Ended, Idle, Waiting
<1>3. TypeOK'
  <2>1. chain' \in [Nodes -> Seq(Block)]
    BY DEF Inv, TypeOK
  <2>2. sync' \in [Nodes -> {Idle} \cup Asked \cup Ended]
    BY DEF Inv, TypeOK
  <2>3. response' \in [Nodes -> {NoResponse} \cup Response]
    BY DEF Inv, TypeOK
  <2>. QED  BY <2>1, <2>2, <2>3 DEF Inv, TypeOK
<1>4. NodeInv(n)' /\ ChainStep(n)
  BY <1>1, <1>2 DEF Inv, NodeInv, ChainStep
<1>5. \A m \in Nodes \ {n} : Untouched(m)
  BY DEF Inv, TypeOK, Untouched
<1>. QED  BY <1>3, <1>4, <1>5, OneNode

\* The sync goes on with the chain as it is.
LEMMA ProceedOK ==
    ASSUME Inv, NEW n \in Nodes, Waiting(n),
           NEW next \in Asked \cup Ended, next.peer = sync[n].peer,
           Proceed(n, next),
           response' = [response EXCEPT ![n] = NoResponse],
           UNCHANGED <<bytechain_peers, sync_queue, syncing_peers, is_syncing,
                       streams, connected, gossip>>,
           faults' \in 0..MaxFaults,
           next.pc = "hash" =>
             /\ next.remote_height > HeightOf(chain[n])
             /\ 0 <= next.low /\ next.low <= next.high
             /\ next.high <= HeightOf(chain[n])
             /\ next.common_height < Len(chain[n]),
           next.pc = "blocks" =>
             /\ next.remote_height > HeightOf(chain[n])
             /\ next.common_height < Len(chain[n])
    PROVE  StepOK
<1>1. sync' = [sync EXCEPT ![n] = next] /\ chain' = chain
  BY DEF Proceed
<1>2. chain' = [chain EXCEPT ![n] = chain[n]] /\ chain'[n] = chain[n]
  BY <1>1 DEF Inv, TypeOK
<1>3. chain[n] \in Seq(Block) /\ chain[n] # <<>> /\ Linked(chain[n])
  BY DEF Inv, TypeOK, NodeInv
<1>4. sync'[n] = next
  BY <1>1 DEF Inv, TypeOK
<1>5. Basis(n)'
  BY <1>2, <1>4 DEF Basis
<1>. QED  BY <1>1, <1>2, <1>3, <1>5, ResumeOK

LEMMA AbortOK ==
    ASSUME Inv, NEW n \in Nodes, Waiting(n), Abort(n),
           response' = [response EXCEPT ![n] = NoResponse],
           UNCHANGED <<bytechain_peers, sync_queue, syncing_peers, is_syncing,
                       streams, connected, gossip>>,
           faults' \in 0..MaxFaults
    PROVE  StepOK
<1>. DEFINE next == Closing(sync[n])
<1>1. sync[n].peer \in Nodes
  BY WaitingAsked DEF Inv
<1>2. next \in Ended /\ next.peer = sync[n].peer /\ next.pc = "closing"
  BY <1>1 DEF Closing, Ended
<1>3. Proceed(n, next)
  BY DEF Abort
<1>. HIDE DEF next
<1>. QED  BY <1>2, <1>3, ProceedOK

\* Lost streams and timeouts end a sync.
LEMMA FailOK ==
    ASSUME Inv, NEW n \in Nodes, LoseStream(n) \/ Timeout(n)
    PROVE  StepOK
<1>1. faults' \in 0..MaxFaults
  BY ChainSyncAssumption DEF Inv, TypeOK, LoseStream, Timeout
<1>. QED  BY <1>1, AbortOK DEF LoseStream, Timeout, StreamFails

LEMMA ReceiveErrorOK ==
    ASSUME Inv, NEW n \in Nodes, Receive(n), ReceiveError(n)
    PROVE  StepOK
<1>1. Waiting(n)
  BY DEF Inv, NodeInv, ReceiveError, Refused, NoResponse
<1>2. faults' \in 0..MaxFaults
  BY DEF Inv, TypeOK, Receive
<1>. QED  BY <1>1, <1>2, AbortOK DEF Receive, ReceiveError

\* A bisection starts within the chains of both nodes.
LEMMA ReceiveHeightOK ==
    ASSUME Inv, NEW n \in Nodes, Receive(n), ReceiveHeight(n)
    PROVE  StepOK
<1>. DEFINE s == sync[n]
            next == AskHash(s, response[n].height, 0, HeightOf(chain[n]), -1)
<1>1. /\ Waiting(n) /\ s.pc = "height" /\ response[n].height \in Nat
  BY DEF Inv, TypeOK, NodeInv, ReceiveHeight, Response, Refused, NoResponse
<1>2. s.peer \in Nodes /\ s.round \in 0..MAX_ROUNDS-1
  BY <1>1, WaitingAsked DEF Inv, Asked
<1>3. chain[n] \in Seq(Block) /\ Len(chain[n]) \in Nat /\ Len(chain[n]) > 0
  BY DEF Inv, TypeOK, NodeInv
<1>4. faults' \in 0..MaxFaults
  BY DEF Inv, TypeOK, Receive
<1>5. CASE response[n].height <= HeightOf(chain[n])
  BY <1>1, <1>4, <1>5, AbortOK DEF Receive, ReceiveHeight
<1>6. CASE ~ response[n].height <= HeightOf(chain[n])
  <2>1. HeightOf(chain[n]) \in Nat /\ response[n].height > HeightOf(chain[n])
    BY <1>1, <1>3, <1>6 DEF HeightOf
  <2>2. next \in Asked /\ next.peer = s.peer
    BY <1>1, <1>2, <2>1 DEF AskHash, Asked
  <2>3. /\ next.pc = "hash" /\ next.remote_height > HeightOf(chain[n])
        /\ 0 <= next.low /\ next.low <= next.high
        /\ next.high <= HeightOf(chain[n])
        /\ next.common_height < Len(chain[n])
    BY <1>3, <2>1 DEF AskHash
  <2>4. Proceed(n, next)
    BY <1>6 DEF ReceiveHeight
  <2>. HIDE DEF next
  <2>. QED  BY <1>1, <1>4, <2>2, <2>3, <2>4, ProceedOK DEF Receive
<1>. QED  BY <1>5, <1>6

\* One turn of the bisection stays within the bounds of the one before.
LEMMA ReceiveHashOK ==
    ASSUME Inv, NEW n \in Nodes, Receive(n), ReceiveHash(n)
    PROVE  StepOK
<1>. DEFINE s == sync[n]
            middle == Middle(s)
            same == response[n].hash = chain[n][middle + 1]
            low  == IF same THEN middle + 1 ELSE s.low
            high == IF same THEN s.high ELSE middle - 1
            common_height == IF same THEN middle ELSE s.common_height
            search == AskHash(s, s.remote_height, low, high, common_height)
            fetch == AskBlocks(s, common_height, <<>>)
<1>1. Waiting(n) /\ s.pc = "hash"
  BY DEF Inv, TypeOK, NodeInv, ReceiveHash, Response, Refused, NoResponse
<1>2. /\ s.peer \in Nodes /\ s.round \in 0..MAX_ROUNDS-1
      /\ s.remote_height \in Nat /\ s.low \in Nat /\ s.high \in Nat
      /\ s.common_height \in Int
  BY <1>1, WaitingAsked DEF Inv, Asked
<1>3. Len(chain[n]) \in Nat /\ HeightOf(chain[n]) = Len(chain[n]) - 1
  BY DEF Inv, TypeOK, HeightOf
<1>4. /\ s.remote_height > HeightOf(chain[n])
      /\ s.low <= s.high /\ s.high <= HeightOf(chain[n])
      /\ s.common_height < Len(chain[n])
  BY <1>1 DEF Inv, NodeInv, Basis
<1>5. middle \in Nat /\ s.low <= middle /\ middle <= s.high
  BY <1>2, <1>4 DEF Middle
<1>6. faults' \in 0..MaxFaults
  BY DEF Inv, TypeOK, Receive
<1>7. /\ low \in Nat /\ high \in Int /\ high <= HeightOf(chain[n])
      /\ common_height \in Int /\ common_height < Len(chain[n])
  <2>. HIDE DEF middle, same
  <2>. QED  BY <1>2, <1>3, <1>4, <1>5
<1>8. Receive(n) /\ IF low <= high THEN Proceed(n, search)
                    ELSE IF common_height < 0 THEN Abort(n)
                         ELSE Proceed(n, fetch)
  BY DEF ReceiveHash
<1>. HIDE DEF middle, same, low, high, common_height
<1>9. CASE low <= high
  <2>1. search \in Asked /\ search.peer = s.peer
    BY <1>2, <1>7, <1>9 DEF AskHash, Asked
  <2>2. /\ search.pc = "hash" /\ search.remote_height > HeightOf(chain[n])
        /\ 0 <= search.low /\ search.low <= search.high
        /\ search.high <= HeightOf(chain[n])
        /\ search.common_height < Len(chain[n])
    BY <1>4, <1>7, <1>9 DEF AskHash
  <2>. HIDE DEF search
  <2>. QED  BY <1>1, <1>6, <1>8, <1>9, <2>1, <2>2, ProceedOK DEF Receive
<1>10. CASE ~ low <= high /\ common_height < 0
  BY <1>1, <1>6, <1>8, <1>10, AbortOK DEF Receive
<1>11. CASE ~ low <= high /\ ~ common_height < 0
  <2>1. fetch \in Asked /\ fetch.peer = s.peer
    BY <1>2, <1>7, <1>11 DEF AskBlocks, Asked
  <2>2. /\ fetch.pc = "blocks" /\ fetch.remote_height > HeightOf(chain[n])
        /\ fetch.common_height < Len(chain[n])
    BY <1>4, <1>7 DEF AskBlocks
  <2>. HIDE DEF fetch
  <2>. QED  BY <1>1, <1>6, <1>8, <1>11, <2>1, <2>2, ProceedOK DEF Receive
<1>. QED  BY <1>9, <1>10, <1>11

\* Downloaded blocks are adopted only as a longer, linked chain.
LEMMA ApplyOK ==
    ASSUME Inv, NEW n \in Nodes, Receive(n), sync[n].pc = "blocks",
           NEW blocks \in Seq(Block), Apply(n, sync[n].common_height, blocks)
    PROVE  StepOK
<1>. DEFINE s == sync[n]
            candidate == SubSeq(chain[n], 1, s.common_height + 1) \o blocks
            next == IF s.round + 1 < MAX_ROUNDS
                    THEN AskHeight(s.peer, s.round + 1) ELSE Closing(s)
<1>1. Waiting(n) /\ faults' \in 0..MaxFaults
  BY DEF Waiting, Inv, TypeOK, Receive
<1>2. /\ s.peer \in Nodes /\ s.round \in 0..MAX_ROUNDS-1
      /\ s.common_height \in Nat
  BY <1>1, WaitingAsked DEF Inv, Asked
<1>3. chain[n] \in Seq(Block) /\ s.common_height < Len(chain[n])
  BY DEF Inv, TypeOK, NodeInv, Basis
<1>4. candidate \in Seq(Block)
  BY <1>2, <1>3, CandidateType
<1>5. IF Len(candidate) > Len(chain[n]) /\ Linked(candidate)
      THEN /\ chain' = [chain EXCEPT ![n] = candidate]
           /\ sync' = [sync EXCEPT ![n] = next]
      ELSE Abort(n)
  BY DEF Apply
<1>6. next \in Asked \cup Ended /\ next.peer = s.peer
      /\ next.pc \in {"height", "closing"}
  <2>1. CASE s.round + 1 < MAX_ROUNDS
    BY <1>2, <2>1, ChainSyncAssumption DEF AskHeight, Asked
  <2>2. CASE ~ s.round + 1 < MAX_ROUNDS
    BY <1>2, <2>2 DEF Closing, Ended
  <2>. QED  BY <2>1, <2>2
<1>. HIDE DEF candidate, next
<1>7. CASE Len(candidate) > Len(chain[n]) /\ Linked(candidate)
  <2>1. candidate # <<>>
    BY <1>3, <1>7
  <2>2. sync'[n] = next
    BY <1>5, <1>7 DEF Inv, TypeOK
  <2>3. Basis(n)'
    BY <1>6, <2>2 DEF Basis
  <2>. QED  BY <1>1, <1>4, <1>5, <1>6, <1>7, <2>1, <2>3, ResumeOK DEF Receive
<1>8. CASE ~ (Len(candidate) > Len(chain[n]) /\ Linked(candidate))
  BY <1>1, <1>5, <1>8, AbortOK DEF Receive
<1>. QED  BY <1>7, <1>8

LEMMA ReceiveBlocksOK ==
    ASSUME Inv, NEW n \in Nodes, Receive(n), ReceiveBlocks(n)
    PROVE  StepOK
<1>. DEFINE s == sync[n]
            received_blocks == s.received_blocks \o response[n].blocks
            next == AskBlocks(s, s.common_height, received_blocks)
<1>1. /\ Waiting(n) /\ s.pc = "blocks" /\ response[n].blocks \in Seq(Block)
  BY DEF Inv, TypeOK, NodeInv, ReceiveBlocks, Response, Refused, NoResponse
<1>2. /\ s.peer \in Nodes /\ s.round \in 0..MAX_ROUNDS-1
      /\ s.remote_height \in Nat /\ s.common_height \in Nat
      /\ s.received_blocks \in Seq(Block)
  BY <1>1, WaitingAsked DEF Inv, Asked
<1>3. received_blocks \in Seq(Block)
  BY <1>1, <1>2
<1>4. faults' \in 0..MaxFaults
  BY DEF Inv, TypeOK, Receive
<1>5. \/ Abort(n)
      \/ Proceed(n, next)
      \/ Apply(n, s.common_height, received_blocks)
  BY DEF ReceiveBlocks
<1>6. CASE Abort(n)
  BY <1>1, <1>4, <1>6, AbortOK DEF Receive
<1>7. CASE Proceed(n, next)
  <2>1. next \in Asked /\ next.peer = s.peer
    <3>. HIDE DEF received_blocks
    <3>. QED  BY <1>2, <1>3 DEF AskBlocks, Asked
  <2>2. /\ next.pc = "blocks" /\ next.remote_height > HeightOf(chain[n])
        /\ next.common_height < Len(chain[n])
    BY <1>1 DEF AskBlocks, Inv, NodeInv, Basis
  <2>. HIDE DEF next
  <2>. QED  BY <1>1, <1>4, <1>7, <2>1, <2>2, ProceedOK DEF Receive
<1>8. CASE Apply(n, s.common_height, received_blocks)
  <2>. HIDE DEF received_blocks
  <2>. QED  BY <1>1, <1>3, <1>8, ApplyOK
<1>. QED  BY <1>5, <1>6, <1>7, <1>8

\* The flag goes down with the last peer, which is the peer of this sync.
LEMMA FinishSyncOK ==
    ASSUME Inv, NEW n \in Nodes, FinishSync(n)
    PROVE  StepOK
<1>1. sync[n].pc = "closing" /\ sync[n] # Idle /\ NodeInv(n)
  BY DEF Inv, FinishSync, Idle
<1>2. TypeOK'
  BY DEF Inv, TypeOK, FinishSync
<1>3. sync'[n] = Idle /\ syncing_peers'[n] = {}
  BY <1>1 DEF Inv, TypeOK, NodeInv, FinishSync
<1>4. is_syncing'[n] = FALSE /\ response[n] = NoResponse
  BY <1>1, <1>3 DEF Inv, TypeOK, NodeInv, FinishSync, Waiting
<1>5. NodeInv(n)' /\ ChainStep(n)
  BY <1>1, <1>3, <1>4 DEF FinishSync, NodeInv, Basis, Idle, ChainStep
<1>6. \A m \in Nodes \ {n} : Untouched(m)
  BY DEF Inv, TypeOK, FinishSync, Untouched
<1>. QED  BY <1>2, <1>5, <1>6, OneNode

\* Every step preserves the invariant and changes chains by the rule.
LEMMA Step == Inv /\ [Next]_vars => StepOK
<1>. SUFFICES ASSUME Inv, [Next]_vars PROVE StepOK
  OBVIOUS
<1>1. ASSUME NEW link \in Links, Connect(link) \/ Disconnect(link)
      PROVE  StepOK
  BY <1>1, ConnectOK, DisconnectOK
<1>2. ASSUME NEW n \in Nodes, NEW peer \in Nodes, Identify(n, peer)
      PROVE  StepOK
  BY <1>2, IdentifyOK
<1>3. ASSUME NEW n \in Miners, NEW reached \in SUBSET (Nodes \ {n}),
             pub_block(n, reached)
      PROVE  StepOK
  BY <1>3, pub_blockOK
<1>4. ASSUME NEW msg \in gossip, receive_block(msg)
      PROVE  StepOK
  BY <1>4, receive_blockOK
<1>5. ASSUME NEW n \in Nodes,
             \/ PeriodicSync(n) \/ StartSync(n) \/ Serve(n)
             \/ LoseStream(n) \/ Timeout(n) \/ FinishSync(n)
      PROVE  StepOK
  BY <1>5, PeriodicSyncOK, StartSyncOK, ServeOK, FailOK, FinishSyncOK
<1>6. ASSUME NEW n \in Nodes, Receive(n)
      PROVE  StepOK
  <2>1. \/ ReceiveHeight(n) \/ ReceiveHash(n) \/ ReceiveBlocks(n)
        \/ ReceiveError(n)
    BY <1>6 DEF Receive
  <2>. QED  BY <1>6, <2>1, ReceiveHeightOK, ReceiveHashOK, ReceiveBlocksOK,
               ReceiveErrorOK
<1>7. CASE UNCHANGED vars
  <2>1. TypeOK'
    BY <1>7 DEF Inv, TypeOK, vars
  <2>2. \A n \in Nodes : Untouched(n)
    BY <1>7 DEF vars, Untouched
  <2>. QED  BY <2>1, <2>2, NoNode
<1>. QED  BY <1>1, <1>2, <1>3, <1>4, <1>5, <1>6, <1>7 DEF Next

-----------------------------------------------------------------------------

\* The invariant holds in every reachable state.
THEOREM Invariant == Spec => []Inv
<1>1. Inv /\ [Next]_vars => Inv'
  BY Step DEF StepOK
<1>. QED  BY InitInv, <1>1, PTL DEF Spec

\* p2p.ts: every variable keeps its type, the round its bound.
THEOREM TypeCorrect == Spec => []TypeOK
<1>1. Inv => TypeOK BY DEF Inv
<1>. QED  BY Invariant, <1>1, PTL

\* p2p.ts:321, 419: is_syncing is up exactly while a sync runs.
THEOREM FlagCorrect == Spec => []SyncingFlag
<1>1. Inv => SyncingFlag BY DEF Inv, NodeInv, SyncingFlag
<1>. QED  BY Invariant, <1>1, PTL

\* p2p.ts:348-402: what a sync has read about its own chain stays true until
\* it uses it.
THEOREM BasisAlwaysHolds == Spec => []BasisHolds
<1>1. Inv => BasisHolds BY DEF Inv, NodeInv, Basis, BasisHolds
<1>. QED  BY Invariant, <1>1, PTL

-----------------------------------------------------------------------------
(* Answers.  Since chains only grow, what a peer has promised stays true     *)
(* until the sync that was promised it is over.                              *)

PeerInv(n) ==
    LET s == sync[n]
        peer_chain == chain[s.peer]
    IN  /\ s.pc \in {"hash", "blocks"} => s.remote_height < Len(peer_chain)
        /\ s.pc = "blocks" => Cursor(s) <= s.remote_height
        /\ response[n] # Refused
        /\ response[n].type = "height" => response[n].height < Len(peer_chain)
        /\ response[n].type = "blocks" =>
             Len(response[n].blocks) = ToHeight(s) - Cursor(s)

\* The growth of chains does not disturb a sync and its answer.
LEMMA PeerUnchanged ==
    ASSUME Inv, StepOK, NEW n \in Nodes, PeerInv(n),
           sync'[n] = sync[n], response'[n] = response[n]
    PROVE  PeerInv(n)'
<1>1. CASE Waiting(n)
  <2>1. sync[n].peer \in Nodes
    BY <1>1, WaitingAsked DEF Inv
  <2>2. Len(chain'[sync[n].peer]) \in Nat /\ Len(chain[sync[n].peer]) \in Nat
    BY <2>1 DEF StepOK, Inv, TypeOK
  <2>3. Len(chain'[sync[n].peer]) >= Len(chain[sync[n].peer])
    BY <2>1, <2>2 DEF StepOK, ChainStep
  <2>4. sync[n].pc \in {"hash", "blocks"} => sync[n].remote_height \in Nat
    BY <1>1, WaitingAsked DEF Inv, Asked
  <2>5. response[n].type = "height" => response[n].height \in Nat
    <3>1. response[n] \in {NoResponse} \cup Response
      BY DEF Inv, TypeOK
    <3>. QED  BY <3>1 DEF Response, NoResponse, Refused
  <2>. QED  BY <2>2, <2>3, <2>4, <2>5 DEF PeerInv, Cursor, ToHeight
<1>2. CASE ~ Waiting(n)
  <2>1. response[n] = NoResponse
    BY <1>2 DEF Inv, NodeInv
  <2>. QED  BY <1>2, <2>1 DEF PeerInv, Waiting, NoResponse, Refused
<1>. QED  BY <1>1, <1>2

\* A sync at a start or an end has been promised nothing.
LEMMA PeerFresh ==
    ASSUME NEW n \in Nodes, response'[n] = NoResponse,
           sync'[n].pc \notin {"hash", "blocks"}
    PROVE  PeerInv(n)'
BY DEF PeerInv, NoResponse, Refused

\* A batch that begins on a chain is not empty, and ends on it.
LEMMA BatchEnds ==
    ASSUME NEW s, NEW length \in Nat, Cursor(s) \in Nat, s.remote_height \in Nat,
           Cursor(s) <= s.remote_height, s.remote_height < length
    PROVE  /\ ToHeight(s) \in Nat /\ Cursor(s) < ToHeight(s)
           /\ ToHeight(s) <= length
<1>1. ASSUME NEW k \in Nat, NEW h \in Nat, NEW batch \in Nat \ {0},
             k <= h, h < length
      PROVE  /\ Least(k + batch, h + 1) \in Nat
             /\ k < Least(k + batch, h + 1)
             /\ Least(k + batch, h + 1) <= length
  BY <1>1 DEF Least
<1>2. SYNC_BATCH_SIZE \in Nat \ {0}
  BY ChainSyncAssumption
<1>. QED  BY <1>1, <1>2, Zenon DEF ToHeight

LEMMA PeerServe ==
    ASSUME Inv, StepOK, NEW n \in Nodes, PeerInv(n), Serve(n)
    PROVE  PeerInv(n)'
<1>. DEFINE s == sync[n]
            c == chain[s.peer]
<1>1. s \in Asked /\ s.peer \in Nodes
  BY WaitingAsked DEF Inv, Serve
<1>2. c \in Seq(Block) /\ Len(c) \in Nat /\ Len(c) > 0
  BY <1>1 DEF Inv, TypeOK, NodeInv
<1>3. sync' = sync /\ chain' = chain /\ response'[n] = Answer(c, s)
  BY DEF Inv, TypeOK, Serve
<1>4. CASE s.pc = "height"
  <2>1. Answer(c, s) = [type |-> "height", height |-> HeightOf(c),
                        headHash |-> Latest(c)]
    BY <1>4 DEF Answer
  <2>. QED  BY <1>2, <1>3, <1>4, <2>1 DEF PeerInv, HeightOf, Refused
<1>5. CASE s.pc = "hash"
  <2>1. /\ s.low \in Nat /\ s.high \in Nat /\ s.remote_height \in Nat
        /\ Len(chain[n]) \in Nat
    BY <1>1, <1>5 DEF Asked, Inv, TypeOK
  <2>2. /\ s.low <= s.high /\ s.high <= HeightOf(chain[n])
        /\ s.remote_height > HeightOf(chain[n])
        /\ s.remote_height < Len(c)
    BY <1>5 DEF Inv, NodeInv, Basis, PeerInv
  <2>3. Middle(s) < Len(c)
    <3>1. Middle(s) \in Nat /\ Middle(s) <= s.high
      BY <2>1, <2>2 DEF Middle
    <3>2. s.high < Len(chain[n]) /\ Len(chain[n]) <= s.remote_height
      BY <2>1, <2>2 DEF HeightOf
    <3>. QED  BY <1>2, <2>1, <2>2, <3>1, <3>2
  <2>4. Answer(c, s) = [type |-> "hash", hash |-> c[Middle(s) + 1]]
    BY <1>5, <2>3 DEF Answer
  <2>. QED  BY <1>3, <1>5, <2>2, <2>4 DEF PeerInv, Refused
<1>6. CASE s.pc = "blocks"
  <2>1. /\ s.remote_height \in Nat /\ s.common_height \in Nat
        /\ s.received_blocks \in Seq(Block)
    BY <1>1, <1>6 DEF Asked
  <2>2. Cursor(s) \in Nat
    BY <2>1 DEF Cursor
  <2>3. s.remote_height < Len(c) /\ Cursor(s) <= s.remote_height
    BY <1>6 DEF PeerInv
  <2>4. /\ ToHeight(s) \in Nat /\ Cursor(s) < ToHeight(s)
        /\ ToHeight(s) <= Len(c)
    BY <1>2, <2>1, <2>2, <2>3, BatchEnds, Zenon
  <2>5. Least(ToHeight(s), Len(c)) = ToHeight(s)
    BY <1>2, <2>4 DEF Least
  <2>6. Answer(c, s) = [type |-> "blocks",
                        blocks |-> SubSeq(c, Cursor(s) + 1, ToHeight(s))]
    <3>1. Cursor(s) <= Least(ToHeight(s), Len(c))
      BY <2>2, <2>4, <2>5
    <3>. QED  BY <1>6, <2>5, <3>1 DEF Answer
  <2>7. Len(SubSeq(c, Cursor(s) + 1, ToHeight(s))) = ToHeight(s) - Cursor(s)
    BY <1>2, <2>2, <2>4
  <2>8. /\ response'[n] # Refused /\ response'[n].type = "blocks"
        /\ Len(response'[n].blocks) = ToHeight(s) - Cursor(s)
    <3>1. response'[n] = [type |-> "blocks",
                          blocks |-> SubSeq(c, Cursor(s) + 1, ToHeight(s))]
      BY <1>3, <2>6, Zenon
    <3>2. /\ response'[n].type = "blocks"
          /\ response'[n].blocks = SubSeq(c, Cursor(s) + 1, ToHeight(s))
      <4>1. ASSUME NEW r, NEW bs, r = [type |-> "blocks", blocks |-> bs]
            PROVE  r.type = "blocks" /\ r.blocks = bs
        BY <4>1
      <4>. QED  BY <3>1, <4>1, Zenon
    <3>3. Refused.type = "error"
      BY DEF Refused
    <3>4. response'[n] # Refused
      BY <3>2, <3>3
    <3>. QED  BY <2>7, <3>2, <3>4, Zenon
  <2>9. sync'[n] = s /\ chain'[s.peer] = c
    BY <1>3
  <2>. HIDE DEF s, c
  <2>. QED  BY <1>6, <2>3, <2>8, <2>9 DEF PeerInv, Cursor, ToHeight
<1>. QED  BY <1>1, <1>4, <1>5, <1>6 DEF Asked

LEMMA PeerReceive ==
    ASSUME Inv, StepOK, NEW n \in Nodes, PeerInv(n), Receive(n)
    PROVE  PeerInv(n)'
<1>. DEFINE s == sync[n]
<1>1. response'[n] = NoResponse
  BY DEF Inv, TypeOK, Receive
<1>2. Waiting(n)
  BY DEF Inv, TypeOK, NodeInv, Receive, ReceiveHeight, ReceiveHash,
         ReceiveBlocks, ReceiveError, Refused, NoResponse
<1>3. s.peer \in Nodes
  BY <1>2, WaitingAsked DEF Inv
<1>4. ASSUME Abort(n) PROVE PeerInv(n)'
  <2>1. sync'[n] = Closing(s)
    BY <1>4 DEF Inv, TypeOK, Abort, Proceed
  <2>. QED  BY <1>1, <2>1, PeerFresh DEF Closing
\* A state that asks on, for what was promised.
<1>5. ASSUME NEW next, Proceed(n, next), next.peer = s.peer,
             next.remote_height < Len(chain[s.peer]),
             next.pc = "blocks" => Cursor(next) <= next.remote_height
      PROVE  PeerInv(n)'
  <2>1. sync'[n] = next /\ chain' = chain
    BY <1>5 DEF Inv, TypeOK, Proceed
  <2>. QED  BY <1>1, <1>5, <2>1
            DEF PeerInv, NoResponse, Refused, Cursor
<1>6. CASE ReceiveHeight(n)
  <2>. DEFINE next == AskHash(s, response[n].height, 0, HeightOf(chain[n]), -1)
  <2>1. Abort(n) \/ Proceed(n, next)
    BY <1>6 DEF ReceiveHeight
  <2>2. /\ next.pc = "hash" /\ next.peer = s.peer
        /\ next.remote_height < Len(chain[s.peer])
    BY <1>6 DEF AskHash, ReceiveHeight, PeerInv
  <2>. HIDE DEF next
  <2>. QED  BY <1>4, <1>5, <2>1, <2>2
<1>7. CASE ReceiveHash(n)
  <2>1. s.pc = "hash" /\ s.remote_height < Len(chain[s.peer])
    BY <1>2, <1>7 DEF Inv, NodeInv, ReceiveHash, Refused, NoResponse, PeerInv
  <2>2. /\ s.low \in Nat /\ s.high \in Nat /\ s.common_height \in Int
        /\ s.remote_height \in Nat /\ Len(chain[n]) \in Nat
    <3>1. s \in Asked /\ Len(chain[n]) \in Nat
      BY <1>2, WaitingAsked DEF Inv, TypeOK
    <3>. QED  BY <2>1, <3>1 DEF Asked
  <2>3. /\ s.low <= s.high /\ s.high < Len(chain[n])
        /\ s.common_height < Len(chain[n])
        /\ Len(chain[n]) <= s.remote_height
    BY <2>1, <2>2 DEF Inv, NodeInv, Basis, HeightOf
  <2>4. Middle(s) \in Nat /\ Middle(s) < Len(chain[n])
    BY <2>2, <2>3 DEF Middle
  <2>5. \/ Abort(n)
        \/ \E low, high, common_height \in Int :
             Proceed(n, AskHash(s, s.remote_height, low, high, common_height))
        \/ \E common_height \in Int :
             /\ common_height < Len(chain[n])
             /\ Proceed(n, AskBlocks(s, common_height, <<>>))
    <3>. DEFINE same == response[n].hash = chain[n][Middle(s) + 1]
                low  == IF same THEN Middle(s) + 1 ELSE s.low
                high == IF same THEN s.high ELSE Middle(s) - 1
                common_height == IF same THEN Middle(s) ELSE s.common_height
    <3>1. /\ low \in Int /\ high \in Int /\ common_height \in Int
          /\ common_height < Len(chain[n])
      <4>. HIDE DEF same
      <4>. QED  BY <2>2, <2>3, <2>4
    <3>2. \/ Abort(n)
          \/ Proceed(n, AskHash(s, s.remote_height, low, high, common_height))
          \/ Proceed(n, AskBlocks(s, common_height, <<>>))
      BY <1>7 DEF ReceiveHash
    <3>. HIDE DEF low, high, common_height
    <3>. QED  BY <3>1, <3>2
  <2>6. ASSUME NEW low \in Int, NEW high \in Int, NEW common_height \in Int,
               Proceed(n, AskHash(s, s.remote_height, low, high, common_height))
        PROVE  PeerInv(n)'
    <3>. DEFINE next == AskHash(s, s.remote_height, low, high, common_height)
    <3>1. /\ next.pc = "hash" /\ next.peer = s.peer
          /\ next.remote_height < Len(chain[s.peer])
      BY <2>1 DEF AskHash
    <3>2. Proceed(n, next)
      BY <2>6
    <3>. HIDE DEF next
    <3>. QED  BY <1>5, <3>1, <3>2
  <2>7. ASSUME NEW common_height \in Int, common_height < Len(chain[n]),
               Proceed(n, AskBlocks(s, common_height, <<>>))
        PROVE  PeerInv(n)'
    <3>. DEFINE next == AskBlocks(s, common_height, <<>>)
    <3>1. /\ next.peer = s.peer
          /\ next.remote_height < Len(chain[s.peer])
          /\ Cursor(next) <= next.remote_height
      BY <2>1, <2>2, <2>3, <2>7 DEF AskBlocks, Cursor
    <3>2. Proceed(n, next)
      BY <2>7
    <3>. HIDE DEF next
    <3>. QED  BY <1>5, <3>1, <3>2
  <2>. QED  BY <1>4, <2>5, <2>6, <2>7
<1>8. CASE ReceiveBlocks(n)
  <2>. DEFINE received_blocks == s.received_blocks \o response[n].blocks
              next == AskBlocks(s, s.common_height, received_blocks)
  <2>1. s.pc = "blocks" /\ s.remote_height < Len(chain[s.peer])
    BY <1>2, <1>8 DEF Inv, NodeInv, ReceiveBlocks, Refused, NoResponse, PeerInv
  <2>2. \/ Abort(n)
        \/ Proceed(n, next) /\ Cursor(next) <= s.remote_height
        \/ Apply(n, s.common_height, received_blocks)
    BY <1>8 DEF ReceiveBlocks
  <2>3. next.peer = s.peer /\ next.remote_height = s.remote_height
    BY DEF AskBlocks
  <2>4. ASSUME Apply(n, s.common_height, received_blocks) PROVE PeerInv(n)'
    <3>1. \/ Abort(n)
          \/ sync' = [sync EXCEPT ![n] = AskHeight(s.peer, s.round + 1)]
          \/ sync' = [sync EXCEPT ![n] = Closing(s)]
      BY <2>4 DEF Apply
    <3>2. sync'[n].pc \notin {"hash", "blocks"}
      BY <3>1 DEF Inv, TypeOK, Abort, Proceed, AskHeight, Closing
    <3>. QED  BY <1>1, <3>2, PeerFresh
  <2>. HIDE DEF next, received_blocks
  <2>. QED  BY <1>4, <1>5, <2>1, <2>2, <2>3, <2>4
<1>9. CASE ReceiveError(n)
  BY <1>4, <1>9 DEF ReceiveError
<1>. QED  BY <1>6, <1>7, <1>8, <1>9 DEF Receive

\* Every step preserves what peers have promised.
LEMMA PeerStep ==
    ASSUME Inv, StepOK, [Next]_vars, \A n \in Nodes : PeerInv(n)
    PROVE  \A n \in Nodes : PeerInv(n)'
<1>. DEFINE Moves(n) == Serve(n) \/ Receive(n)
            Rests(n) == response'[n] = NoResponse
                          /\ sync'[n].pc \notin {"hash", "blocks"}
            Stays(m) == sync'[m] = sync[m] /\ response'[m] = response[m]
<1>1. \/ \A m \in Nodes : Stays(m)
      \/ \E n \in Nodes : /\ Moves(n) \/ Rests(n)
                          /\ \A m \in Nodes \ {n} : Stays(m)
  <2>1. ASSUME NEW link \in Links, Connect(link) \/ Disconnect(link)
        PROVE  \A m \in Nodes : Stays(m)
    BY <2>1 DEF Connect, Disconnect
  <2>2. ASSUME NEW n \in Nodes, NEW peer \in Nodes, Identify(n, peer)
        PROVE  \A m \in Nodes : Stays(m)
    BY <2>2 DEF Identify
  <2>3. ASSUME NEW n \in Miners, NEW reached \in SUBSET (Nodes \ {n}),
               pub_block(n, reached)
        PROVE  \A m \in Nodes : Stays(m)
    BY <2>3 DEF pub_block
  <2>4. ASSUME NEW msg \in gossip, receive_block(msg)
        PROVE  \A m \in Nodes : Stays(m)
    BY <2>4 DEF receive_block
  <2>5. ASSUME NEW n \in Nodes, PeriodicSync(n)
        PROVE  \A m \in Nodes : Stays(m)
    BY <2>5 DEF PeriodicSync
  <2>6. ASSUME NEW n \in Nodes, StartSync(n)
        PROVE  Rests(n) /\ \A m \in Nodes \ {n} : Stays(m)
    <3>1. response[n] = NoResponse /\ response' = response /\ sync[n] = Idle
      BY <2>6 DEF Inv, NodeInv, StartSync, Waiting, Idle
    <3>2. sync' = sync
            \/ sync' = [sync EXCEPT ![n] = AskHeight(Head(sync_queue[n]), 0)]
      BY <2>6 DEF StartSync
    <3>. QED  BY <3>1, <3>2 DEF Inv, TypeOK, AskHeight, Idle
  <2>7. ASSUME NEW n \in Nodes, Serve(n)
        PROVE  \A m \in Nodes \ {n} : Stays(m)
    BY <2>7 DEF Inv, TypeOK, Serve
  <2>8. ASSUME NEW n \in Nodes, Receive(n)
        PROVE  \A m \in Nodes \ {n} : Stays(m)
    BY <2>8 DEF Inv, TypeOK, Receive, ReceiveHeight, ReceiveHash,
                ReceiveBlocks, ReceiveError, Abort, Proceed, Apply
  <2>9. ASSUME NEW n \in Nodes, LoseStream(n) \/ Timeout(n)
        PROVE  Rests(n) /\ \A m \in Nodes \ {n} : Stays(m)
    BY <2>9 DEF Inv, TypeOK, LoseStream, Timeout, StreamFails, Abort, Proceed,
                Closing
  <2>10. ASSUME NEW n \in Nodes, FinishSync(n)
         PROVE  Rests(n) /\ \A m \in Nodes \ {n} : Stays(m)
    BY <2>10 DEF Inv, TypeOK, NodeInv, FinishSync, Waiting, Idle
  <2>11. CASE UNCHANGED vars
    BY <2>11 DEF vars
  <2>. HIDE DEF Stays, Rests
  <2>. QED  BY <2>1, <2>2, <2>3, <2>4, <2>5, <2>6, <2>7, <2>8, <2>9, <2>10,
               <2>11 DEF Next
<1>2. ASSUME NEW m \in Nodes, Stays(m) PROVE PeerInv(m)'
  BY <1>2, PeerUnchanged
<1>3. ASSUME NEW n \in Nodes, Moves(n) \/ Rests(n) PROVE PeerInv(n)'
  BY <1>3, PeerServe, PeerReceive, PeerFresh
<1>. HIDE DEF Stays, Rests, Moves
<1>. QED  BY <1>1, <1>2, <1>3

\* p2p.ts:133-156: an honest peer never refuses what a sync asks of it, and
\* never serves an incomplete batch.
THEOREM AnswersAreComplete == Spec => []AnswersComplete
<1>. DEFINE Promises == \A n \in Nodes : PeerInv(n)
<1>1. Init => Promises
  BY DEF Init, PeerInv, Idle, NoResponse, Refused
<1>2. Inv /\ Promises /\ [Next]_vars => Promises'
  BY Step, PeerStep
<1>3. Promises => AnswersComplete
  BY DEF PeerInv, AnswersComplete
<1>. HIDE DEF Promises
<1>. QED  BY Invariant, <1>1, <1>2, <1>3, PTL DEF Spec

-----------------------------------------------------------------------------
(* What a sync brings home.  A block is the hash of all blocks up to it, so  *)
(* two linked chains with one block at the same height are the same up to it. *)

LEMMA LastOfAppend ==
    ASSUME NEW a \in Block, NEW b \in Block, NEW m \in Nodes, NEW n \in Nodes,
           Append(a, m) = Append(b, n)
    PROVE  a = b
<1>1. /\ Append(a, m) \in Seq(Nodes) /\ Append(b, n) \in Seq(Nodes)
      /\ Len(Append(a, m)) = Len(a) + 1 /\ Len(Append(b, n)) = Len(b) + 1
      /\ Len(a) \in Nat /\ Len(b) \in Nat
  BY DEF Block
<1>2. Len(a) = Len(b)
  BY <1>1
<1>3. ASSUME NEW i \in 1..Len(a) PROVE a[i] = b[i]
  <2>1. a[i] = Append(a, m)[i] /\ b[i] = Append(b, n)[i]
    BY <1>1, <1>2 DEF Block
  <2>. QED  BY <2>1
<1>. QED  BY <1>1, <1>2, <1>3 DEF Block

LEMMA LinkedAgree ==
    ASSUME NEW c \in Seq(Block), NEW d \in Seq(Block), Linked(c), Linked(d),
           NEW k \in 1..Len(c), k \in 1..Len(d), c[k] = d[k]
    PROVE  \A j \in 1..k : c[j] = d[j]
<1>. DEFINE P == {i \in 0..k-1 : c[k-i] = d[k-i]}
<1>1. k - 1 \in Nat /\ Len(c) \in Nat /\ Len(d) \in Nat
  OBVIOUS
<1>2. 0 \in P
  BY <1>1
<1>3. ASSUME NEW i \in 1..k-1, i - 1 \in P PROVE i \in P
  <2>1. PICK j \in Nat : j = k - i
    BY <1>1
  <2>2. /\ j \in 1..Len(c) /\ j \in 1..Len(d) /\ j + 1 = k - (i - 1)
        /\ j + 1 \in 2..Len(c) /\ j + 1 \in 2..Len(d) /\ (j + 1) - 1 = j
    BY <1>1, <2>1
  <2>3. c[j+1] = d[j+1]
    BY <1>3, <2>2
  <2>4. PICK m \in Nodes : c[j+1] = Append(c[j], m)
    BY <2>2 DEF Linked
  <2>5. PICK n \in Nodes : d[j+1] = Append(d[j], n)
    BY <2>2 DEF Linked
  <2>6. c[j] \in Block /\ d[j] \in Block
    BY <2>2
  <2>7. c[j] = d[j]
    BY <2>3, <2>4, <2>5, <2>6, LastOfAppend
  <2>. QED  BY <1>3, <2>1, <2>7
<1>4. P = 0..k-1
  <2>. HIDE DEF P
  <2>1. P \in SUBSET (0..k-1)
    BY DEF P
  <2>. QED  BY <1>1, <1>2, <1>3, <2>1, Induction
<1>5. ASSUME NEW j \in 1..k PROVE c[j] = d[j]
  <2>1. k - j \in 0..k-1 /\ k - (k - j) = j
    BY <1>1
  <2>. QED  BY <1>4, <2>1
<1>. QED  BY <1>5

\* These blocks were read from the chain c, after the first ones.
ReadFrom(c, first, blocks) ==
    \A i \in 1..Len(blocks) : blocks[i] = c[first + i]

\* A linked chain that ends with a block of another one is its beginning.
LEMMA LinkedPrefix ==
    ASSUME NEW c \in Seq(Block), NEW d \in Seq(Block),
           NEW t \in 1..Len(d), Len(c) = t, Linked(d),
           \/ Linked(c) /\ c[t] = d[t]
           \/ ReadFrom(d, 0, c)
    PROVE  c = SubSeq(d, 1, t) /\ Linked(c) /\ IsPrefix(c, d)
<1>1. t \in Nat /\ t >= 1 /\ Len(d) \in Nat /\ t <= Len(d)
  OBVIOUS
<1>2. \A i \in 1..t : c[i] = d[i]
  BY <1>1, LinkedAgree DEF ReadFrom
<1>3. c = SubSeq(d, 1, t)
  <2>1. /\ SubSeq(d, 1, t) \in Seq(Block) /\ Len(SubSeq(d, 1, t)) = t
        /\ \A i \in 1..t : SubSeq(d, 1, t)[i] = d[i]
    BY <1>1
  <2>. QED  BY <1>1, <1>2, <2>1
<1>4. Linked(c)
  <2>1. c[1] = GenesisHash
    BY <1>1, <1>2 DEF Linked
  <2>2. ASSUME NEW i \in 2..Len(c)
        PROVE  \E n \in Nodes : c[i] = Append(c[i-1], n)
    <3>1. /\ i \in 2..Len(d) /\ i \in 1..t /\ i - 1 \in 1..t
      BY <1>1
    <3>2. c[i] = d[i] /\ c[i-1] = d[i-1]
      BY <1>2, <3>1
    <3>. QED  BY <3>1, <3>2 DEF Linked
  <2>. QED  BY <2>1, <2>2 DEF Linked
<1>5. IsPrefix(c, d)
  <2>1. SubSeq(c, 1, Len(c)) = c
    <3>1. /\ SubSeq(c, 1, t) \in Seq(Block) /\ Len(SubSeq(c, 1, t)) = t
          /\ \A i \in 1..t : SubSeq(c, 1, t)[i] = c[i]
      BY <1>1
    <3>. QED  BY <1>1, <3>1
  <2>. QED  BY <1>1, <1>3, <2>1 DEF IsPrefix
<1>. QED  BY <1>3, <1>4, <1>5

-----------------------------------------------------------------------------

\* A block's hash holds as many miners as there are blocks before it.
LEMMA LinkedHeight ==
    ASSUME NEW c \in Seq(Block), c # <<>>, Linked(c)
    PROVE  \A i \in 1..Len(c) : Len(c[i]) = i - 1
<1>. DEFINE P == {i \in 0..Len(c)-1 : Len(c[i+1]) = i}
<1>1. Len(c) \in Nat /\ Len(c) >= 1 /\ Len(c) - 1 \in Nat
  OBVIOUS
<1>2. 0 \in P
  BY <1>1 DEF Linked, GenesisHash
<1>3. ASSUME NEW i \in 1..Len(c)-1, i - 1 \in P PROVE i \in P
  <2>1. i \in 1..Len(c) /\ i + 1 \in 2..Len(c) /\ (i + 1) - 1 = i
        /\ (i - 1) + 1 = i /\ i \in 0..Len(c)-1
    BY <1>1
  <2>2. PICK m \in Nodes : c[i+1] = Append(c[i], m)
    BY <2>1 DEF Linked
  <2>3. Len(c[i]) = i - 1 /\ c[i] \in Seq(Nodes)
    BY <1>3, <2>1 DEF Block
  <2>4. Len(c[i+1]) = i
    BY <2>1, <2>2, <2>3
  <2>. QED  BY <2>1, <2>4
<1>4. P = 0..Len(c)-1
  <2>. HIDE DEF P
  <2>1. P \in SUBSET (0..Len(c)-1)
    BY DEF P
  <2>. QED  BY <1>1, <1>2, <1>3, <2>1, Induction
<1>5. ASSUME NEW j \in 1..Len(c) PROVE Len(c[j]) = j - 1
  <2>1. j - 1 \in 0..Len(c)-1 /\ (j - 1) + 1 = j
    BY <1>1
  <2>. QED  BY <1>4, <2>1
<1>. QED  BY <1>5

-----------------------------------------------------------------------------

\* What a sync in state s knows of the chain c the latest answer was read from,
\* if the answers of the round continue each other: how c fits to its own.
Fits(c, s, own) ==
    /\ s.pc = "hash" /\ s.common_height >= 0 =>
         /\ s.common_height < Len(c)
         /\ c[s.common_height+1] = own[s.common_height+1]
    /\ s.pc = "blocks" =>
         /\ s.common_height < Len(c)
         /\ c[s.common_height+1] = own[s.common_height+1]
         /\ Cursor(s) <= Len(c)
         /\ ReadFrom(c, s.common_height+1, s.received_blocks)
    /\ s.pc \in {"hash", "blocks"} => s.remote_height < Len(c)

\* What an answer r tells of it.
Tells(c, s, r) ==
    /\ r.type = "height" => r.height = Len(c) - 1
    /\ r.type = "hash" => Middle(s) < Len(c) /\ r.hash = c[Middle(s)+1]
    /\ r.type = "blocks" =>
         /\ ToHeight(s) <= Len(c)
         /\ ReadFrom(c, Cursor(s), r.blocks)

Knows(c, continued, s, r, own) ==
    /\ s.pc # "height" \/ r # NoResponse =>
         c \in Seq(Block) /\ c # <<>> /\ Linked(c)
    /\ s.pc = "hash" => s.common_height = s.low - 1
    /\ continued => Fits(c, s, own)
    /\ r.type = "height" => continued
    /\ Tells(c, s, r)

SourceInv(n) ==
    Waiting(n) => Knows(source[n], steady[n], sync[n], response[n], chain[n])

\* What a step of the system is to the sync of a node.
Over(n) == ~ Waiting(n)'
Begins(n) == sync'[n].pc = "height" /\ response'[n] = NoResponse
Stays(n) == /\ sync'[n] = sync[n] /\ response'[n] = response[n]
            /\ Waiting(n) => chain'[n] = chain[n]

LEMMA StepKinds ==
    ASSUME Inv, [Next]_vars, NEW n \in Nodes
    PROVE  Over(n) \/ Begins(n) \/ Serve(n) \/ Receive(n) \/ Stays(n)
<1>1. ASSUME NEW link \in Links, Connect(link) \/ Disconnect(link)
      PROVE  Stays(n)
  BY <1>1 DEF Connect, Disconnect, Stays
<1>2. ASSUME NEW m \in Nodes, NEW peer \in Nodes, Identify(m, peer)
      PROVE  Stays(n)
  BY <1>2 DEF Identify, Stays
<1>3. ASSUME NEW m \in Miners, NEW reached \in SUBSET (Nodes \ {m}),
             pub_block(m, reached)
      PROVE  Stays(n)
  <2>1. m = n => ~ Waiting(n)
    BY <1>3 DEF pub_block, Inv, NodeInv, Waiting, Idle
  <2>2. m # n => chain'[n] = chain[n]
    BY <1>3 DEF pub_block, Inv, TypeOK
  <2>. QED  BY <1>3, <2>1, <2>2 DEF pub_block, Stays
<1>4. ASSUME NEW msg \in gossip, receive_block(msg)
      PROVE  Stays(n)
  <2>1. \/ chain' = chain
        \/ /\ ~ is_syncing[msg.to]
           /\ chain' = [chain EXCEPT ![msg.to] = Append(chain[msg.to], msg.block)]
    BY <1>4 DEF receive_block
  <2>2. msg.to \in Nodes
    BY DEF Inv, TypeOK
  <2>3. msg.to = n => ~ Waiting(n) \/ chain' = chain
    BY <2>1, <2>2 DEF Inv, NodeInv, Waiting, Idle
  <2>4. msg.to # n => chain'[n] = chain[n]
    BY <2>1, <2>2 DEF Inv, TypeOK
  <2>. QED  BY <1>4, <2>3, <2>4 DEF receive_block, Stays
<1>5. ASSUME NEW m \in Nodes, PeriodicSync(m)
      PROVE  Stays(n)
  BY <1>5 DEF PeriodicSync, Stays
<1>6. ASSUME NEW m \in Nodes, StartSync(m)
      PROVE  Begins(n) \/ Stays(n)
  <2>1. /\ response' = response /\ chain' = chain /\ sync[m] = Idle
        /\ \/ sync' = sync
           \/ sync' = [sync EXCEPT ![m] = AskHeight(Head(sync_queue[m]), 0)]
    BY <1>6 DEF StartSync
  <2>2. response[m] = NoResponse
    BY <2>1 DEF Inv, NodeInv, Waiting, Idle
  <2>. QED  BY <2>1, <2>2 DEF Inv, TypeOK, AskHeight, Begins, Stays
<1>7. ASSUME NEW m \in Nodes, Serve(m)
      PROVE  Serve(n) \/ Stays(n)
  BY <1>7 DEF Serve, Inv, TypeOK, Stays
<1>8. ASSUME NEW m \in Nodes, Receive(m)
      PROVE  Receive(n) \/ Stays(n)
  BY <1>8 DEF Inv, TypeOK, Receive, ReceiveHeight, ReceiveHash,
              ReceiveBlocks, ReceiveError, Abort, Proceed, Apply, Stays
<1>9. ASSUME NEW m \in Nodes, LoseStream(m) \/ Timeout(m) \/ FinishSync(m)
      PROVE  Over(n) \/ Stays(n)
  BY <1>9 DEF LoseStream, Timeout, StreamFails, FinishSync, Abort, Proceed,
              Inv, TypeOK, Closing, Waiting, Idle, Over, Stays
<1>10. CASE UNCHANGED vars
  BY <1>10 DEF vars, Stays
<1>. QED  BY <1>1, <1>2, <1>3, <1>4, <1>5, <1>6, <1>7, <1>8, <1>9, <1>10
          DEF Next

\* A sync at the start of a round has read nothing.
LEMMA SourceFresh ==
    ASSUME NEW n \in Nodes, Over(n) \/ Begins(n)
    PROVE  SourceInv(n)'
BY DEF SourceInv, Over, Begins, Knows, Fits, Tells, NoResponse

LEMMA SourceStays ==
    ASSUME NEW n \in Nodes, SourceInv(n), Stays(n),
           Waiting(n)' => source'[n] = source[n] /\ (steady'[n] <=> steady[n])
    PROVE  SourceInv(n)'
<1>. SUFFICES ASSUME Waiting(n)'
              PROVE  Knows(source[n], steady[n], sync[n], response[n],
                           chain[n])'
  BY DEF SourceInv
<1>1. Waiting(n) /\ chain'[n] = chain[n]
  BY DEF Stays, Waiting
<1>2. sync'[n] = sync[n] /\ response'[n] = response[n]
  BY DEF Stays
<1>. QED  BY <1>1, <1>2 DEF SourceInv, Knows

LEMMA PrefixAgrees ==
    ASSUME NEW c \in Seq(Block), NEW d \in Seq(Block), IsPrefix(c, d)
    PROVE  Len(c) <= Len(d) /\ \A i \in 1..Len(c) : d[i] = c[i]
<1>1. Len(c) <= Len(d) /\ SubSeq(c, 1, Len(c)) = SubSeq(d, 1, Len(c))
  BY DEF IsPrefix
<1>2. ASSUME NEW i \in 1..Len(c) PROVE d[i] = c[i]
  <2>1. SubSeq(c, 1, Len(c))[i] = c[i] /\ SubSeq(d, 1, Len(c))[i] = d[i]
    BY <1>1
  <2>. QED  BY <1>1, <2>1
<1>. QED  BY <1>1, <1>2

\* Longer chains fit as well.
LEMMA FitsLonger ==
    ASSUME NEW c \in Seq(Block), NEW d \in Seq(Block), IsPrefix(c, d),
           NEW s \in Asked, s.pc \in {"hash", "blocks"}, NEW own \in Seq(Block),
           Fits(c, s, own)
    PROVE  Fits(d, s, own)
<1>1. /\ Len(c) \in Nat /\ Len(d) \in Nat /\ Len(c) <= Len(d)
      /\ \A i \in 1..Len(c) : d[i] = c[i]
  BY PrefixAgrees
<1>2. /\ s.remote_height \in Nat /\ s.common_height \in Int
  BY DEF Asked
<1>3. s.remote_height < Len(d)
  BY <1>1, <1>2 DEF Fits
<1>4. ASSUME s.common_height >= 0, s.common_height < Len(c),
             c[s.common_height+1] = own[s.common_height+1]
      PROVE  /\ s.common_height < Len(d)
             /\ d[s.common_height+1] = own[s.common_height+1]
  <2>1. s.common_height + 1 \in 1..Len(c)
    BY <1>1, <1>2, <1>4
  <2>. QED  BY <1>1, <1>2, <1>4, <2>1
<1>5. CASE s.pc = "hash"
  BY <1>3, <1>4, <1>5 DEF Fits
<1>6. CASE s.pc = "blocks"
  <2>1. /\ s.common_height \in Nat /\ s.received_blocks \in Seq(Block)
        /\ Len(s.received_blocks) \in Nat
    <3>1. s.common_height \in Nat /\ s.received_blocks \in Seq(Block)
      BY <1>6 DEF Asked
    <3>. QED  BY <3>1
  <2>2. /\ s.common_height < Len(c)
        /\ c[s.common_height+1] = own[s.common_height+1]
        /\ Cursor(s) <= Len(c)
        /\ ReadFrom(c, s.common_height+1, s.received_blocks)
    BY <1>6 DEF Fits
  <2>3. ASSUME NEW h \in Nat, NEW m \in Nat, NEW l \in Nat, NEW l2 \in Nat,
               h + 1 + m <= l, l <= l2
        PROVE  h + 1 + m <= l2 /\ \A k \in 1..m : h + 1 + k \in 1..l
    BY <2>3
  <2>4. /\ Cursor(s) <= Len(d)
        /\ \A k \in 1..Len(s.received_blocks) :
             s.common_height + 1 + k \in 1..Len(c)
    BY <1>1, <2>1, <2>2, <2>3 DEF Cursor
  <2>5. ReadFrom(d, s.common_height+1, s.received_blocks)
    BY <1>1, <2>2, <2>4 DEF ReadFrom
  <2>. QED  BY <1>3, <1>4, <1>6, <2>1, <2>2, <2>4, <2>5 DEF Fits
<1>. QED  BY <1>5, <1>6

\* An answer tells of the chain it is read from.
LEMMA AnswerTells ==
    ASSUME NEW d \in Seq(Block), d # <<>>, NEW s \in Asked,
           NEW r, r = Answer(d, s), r # Refused,
           s.pc = "blocks" => /\ Cursor(s) <= s.remote_height
                              /\ s.remote_height < Len(d)
    PROVE  Tells(d, s, r) /\ r.type = s.pc
<1>0. Len(d) \in Nat /\ Len(d) > 0
  OBVIOUS
<1>1. CASE s.pc = "height"
  <2>1. r = [type |-> "height", height |-> HeightOf(d), headHash |-> Latest(d)]
    BY <1>1 DEF Answer
  <2>. QED  BY <1>1, <2>1 DEF Tells, HeightOf
<1>2. CASE s.pc = "hash"
  <2>1. Middle(s) < Len(d) /\ r = [type |-> "hash", hash |-> d[Middle(s) + 1]]
    BY <1>2 DEF Answer
  <2>. QED  BY <1>2, <2>1 DEF Tells
<1>3. CASE s.pc = "blocks"
  <2>1. /\ s.remote_height \in Nat /\ s.common_height \in Nat
        /\ s.received_blocks \in Seq(Block) /\ Len(s.received_blocks) \in Nat
        /\ Cursor(s) \in Nat
    <3>1. /\ s.remote_height \in Nat /\ s.common_height \in Nat
          /\ s.received_blocks \in Seq(Block)
      BY <1>3 DEF Asked
    <3>. QED  BY <3>1 DEF Cursor
  <2>2. /\ ToHeight(s) \in Nat /\ Cursor(s) < ToHeight(s)
        /\ ToHeight(s) <= Len(d)
    BY <1>0, <1>3, <2>1, BatchEnds, Zenon
  <2>3. Least(ToHeight(s), Len(d)) = ToHeight(s)
    BY <1>0, <2>2 DEF Least
  <2>4. r = [type |-> "blocks", blocks |-> SubSeq(d, Cursor(s) + 1, ToHeight(s))]
    <3>1. Cursor(s) <= Least(ToHeight(s), Len(d))
      BY <2>1, <2>2, <2>3
    <3>. QED  BY <1>3, <2>3, <3>1 DEF Answer
  <2>5. r.type = "blocks" /\ r.blocks = SubSeq(d, Cursor(s) + 1, ToHeight(s))
    <3>1. ASSUME NEW a, NEW bs, a = [type |-> "blocks", blocks |-> bs]
          PROVE  a.type = "blocks" /\ a.blocks = bs
      BY <3>1
    <3>. QED  BY <2>4, <3>1, Zenon
  <2>6. ReadFrom(d, Cursor(s), r.blocks)
    <3>1. ASSUME NEW a \in Nat, NEW b \in Nat, a < b, b <= Len(d),
                 NEW bs, bs = SubSeq(d, a + 1, b)
          PROVE  \A k \in 1..Len(bs) : bs[k] = d[a + k]
      BY <1>0, <3>1
    <3>2. PICK a \in Nat : a = Cursor(s)
      BY <2>1
    <3>3. PICK b \in Nat : b = ToHeight(s)
      BY <2>2
    <3>4. \A k \in 1..Len(r.blocks) : r.blocks[k] = d[a + k]
      BY <2>2, <2>5, <3>1, <3>2, <3>3
    <3>. QED  BY <3>2, <3>4, Zenon DEF ReadFrom
  <2>. QED  BY <1>3, <2>2, <2>5, <2>6 DEF Tells
<1>. QED  BY <1>1, <1>2, <1>3 DEF Asked

\* What an observer remembers at a step.
LEMMA Remembers ==
    ASSUME Remember, NEW n \in Nodes, Waiting(n)'
    PROVE  /\ source'[n] = IF Answered(n) THEN chain[sync[n].peer]
                           ELSE source[n]
           /\ steady'[n] <=> IF Answered(n)
                             THEN \/ sync[n].pc = "height"
                                  \/ /\ steady[n]
                                     /\ IsPrefix(source[n], chain[sync[n].peer])
                             ELSE steady[n]
BY DEF Remember

LEMMA SourceServe ==
    ASSUME Inv, StepOK, Remember, NEW n \in Nodes, PeerInv(n), SourceInv(n),
           Serve(n)
    PROVE  SourceInv(n)'
<1>1. sync[n] \in Asked /\ sync[n].peer \in Nodes
  BY WaitingAsked DEF Inv, Serve
<1>2. PICK s \in Asked : s = sync[n]
  BY <1>1
<1>3. PICK d : d = chain[s.peer]
  OBVIOUS
<1>4. d \in Seq(Block) /\ d # <<>> /\ Linked(d) /\ chain[n] \in Seq(Block)
  BY <1>1, <1>2, <1>3 DEF Inv, TypeOK, NodeInv
<1>5. PICK r : r = Answer(d, s)
  OBVIOUS
<1>6. response'[n] = r
  BY <1>2, <1>3, <1>5 DEF Inv, TypeOK, Serve
<1>7. r # Refused /\ r # NoResponse
  BY <1>1, <1>2, <1>4, <1>5, <1>6, PeerServe, AnswerType DEF PeerInv
<1>8. s.pc = "blocks" => Cursor(s) <= s.remote_height /\ s.remote_height < Len(d)
  BY <1>2, <1>3 DEF PeerInv
<1>9. Knows(source[n], steady[n], s, NoResponse, chain[n])
  BY <1>2 DEF Serve, SourceInv
<1>10. sync'[n] = s /\ chain'[n] = chain[n] /\ Answered(n) /\ Waiting(n)'
  BY <1>2, <1>6, <1>7 DEF Serve, Answered, Waiting
<1>11. /\ source'[n] = d
       /\ steady'[n] <=> s.pc = "height" \/ (steady[n] /\ IsPrefix(source[n], d))
  BY <1>2, <1>3, <1>10, Remembers
<1>12. Tells(d, s, r) /\ r.type = s.pc
  BY <1>4, <1>5, <1>7, <1>8, AnswerTells
<1>13. s.pc = "hash" => s.common_height = s.low - 1
  BY <1>9 DEF Knows
<1>14. ASSUME steady'[n] PROVE Fits(d, s, chain[n])
  <2>1. CASE s.pc = "height"
    BY <2>1 DEF Fits
  <2>2. CASE s.pc \in {"hash", "blocks"}
    <3>1. steady[n] /\ IsPrefix(source[n], d)
      BY <1>11, <1>14, <2>2
    <3>2. source[n] \in Seq(Block) /\ Fits(source[n], s, chain[n])
      BY <1>9, <2>2, <3>1 DEF Knows
    <3>. QED  BY <1>4, <2>2, <3>1, <3>2, FitsLonger
  <2>. QED  BY <2>1, <2>2 DEF Asked
<1>15. Knows(d, steady'[n], s, r, chain[n])
  BY <1>4, <1>11, <1>12, <1>13, <1>14 DEF Knows
<1>. QED  BY <1>6, <1>10, <1>11, <1>15 DEF SourceInv

\* What FollowsPeer asks of a step, for one node.
Follows(n) ==
    /\ chain'[n] # chain[n] => IsPrefix(chain'[n], source[n])
    /\ steady[n] /\ sync[n].pc # "height" =>
         \/ sync'[n].pc \in {"hash", "blocks"}
         \/ chain'[n] = SubSeq(source[n], 1, sync[n].remote_height + 1)

\* A sync that goes on knows what its next state needs.
LEMMA SourceProceeds ==
    ASSUME Inv, Remember, NEW n \in Nodes, Receive(n), NEW next,
           Proceed(n, next), next.pc \in {"hash", "blocks"},
           Knows(source[n], steady[n], next, NoResponse, chain[n])
    PROVE  SourceInv(n)' /\ Follows(n)
<1>1. sync'[n] = next /\ chain'[n] = chain[n] /\ response'[n] = NoResponse
  BY DEF Inv, TypeOK, Receive, Proceed
<1>2. Waiting(n)' /\ ~ Answered(n)
  BY <1>1 DEF Waiting, Answered
<1>3. source'[n] = source[n] /\ (steady'[n] <=> steady[n])
  BY <1>2, Remembers
<1>. QED  BY <1>1, <1>3 DEF SourceInv, Knows, Follows

LEMMA SourceHeight ==
    ASSUME Inv, Remember, NEW n \in Nodes, SourceInv(n), Receive(n),
           ReceiveHeight(n)
    PROVE  SourceInv(n)' /\ Follows(n)
<1>1. PICK r : r = response[n]
  OBVIOUS
<1>2. /\ Waiting(n) /\ sync[n].pc = "height" /\ r.type = "height"
      /\ r # NoResponse
  BY <1>1 DEF Inv, TypeOK, NodeInv, ReceiveHeight, Response, Refused, NoResponse
<1>3. PICK next : next = AskHash(sync[n], r.height, 0, HeightOf(chain[n]), -1)
  OBVIOUS
<1>4. CASE Abort(n)
  <2>1. sync'[n].pc = "closing" /\ chain'[n] = chain[n]
    BY <1>4 DEF Inv, TypeOK, Abort, Proceed, Closing
  <2>. QED  BY <1>2, <2>1, SourceFresh DEF Over, Waiting, Follows
<1>5. CASE Proceed(n, next)
  <2>1. /\ next.pc = "hash" /\ next.low = 0 /\ next.common_height = -1
        /\ next.remote_height = r.height
    BY <1>3 DEF AskHash
  <2>2. /\ source[n] \in Seq(Block) /\ source[n] # <<>> /\ Linked(source[n])
        /\ r.height = Len(source[n]) - 1
    BY <1>1, <1>2 DEF SourceInv, Knows, Tells
  <2>3. next.remote_height < Len(source[n])
    BY <2>1, <2>2
  <2>4. Knows(source[n], steady[n], next, NoResponse, chain[n])
    BY <2>1, <2>2, <2>3 DEF Knows, Fits, Tells, NoResponse
  <2>. QED  BY <1>5, <2>1, <2>4, SourceProceeds
<1>. QED  BY <1>1, <1>3, <1>4, <1>5 DEF ReceiveHeight

\* The genesis block is common to all chains, so the search finds a block.
LEMMA SourceHash ==
    ASSUME Inv, Remember, NEW n \in Nodes, SourceInv(n), Receive(n),
           ReceiveHash(n)
    PROVE  SourceInv(n)' /\ Follows(n)
<1>1. PICK s : s = sync[n]
  OBVIOUS
<1>2. PICK c : c = source[n]
  OBVIOUS
<1>3. PICK r : r = response[n]
  OBVIOUS
<1>4. PICK own : own = chain[n]
  OBVIOUS
<1>5. Waiting(n) /\ s.pc = "hash" /\ r.type = "hash" /\ r # NoResponse
  BY <1>1, <1>3 DEF Inv, TypeOK, NodeInv, ReceiveHash, Response, Refused,
                    NoResponse
<1>6. /\ s.remote_height \in Nat /\ s.low \in Nat /\ s.high \in Nat
      /\ s.common_height \in Int /\ s \in Asked
  BY <1>1, <1>5, WaitingAsked DEF Inv, Asked
<1>7. /\ own \in Seq(Block) /\ own # <<>> /\ Linked(own) /\ Len(own) \in Nat
      /\ s.low <= s.high /\ s.high < Len(own)
      /\ s.common_height < Len(own)
  <2>1. own \in Seq(Block) /\ Len(own) \in Nat
    BY <1>4 DEF Inv, TypeOK
  <2>. QED  BY <1>1, <1>4, <1>5, <1>6, <2>1 DEF Inv, NodeInv, Basis, HeightOf
<1>8. /\ c \in Seq(Block) /\ c # <<>> /\ Linked(c) /\ Len(c) \in Nat
      /\ Middle(s) < Len(c) /\ r.hash = c[Middle(s)+1]
      /\ s.common_height = s.low - 1
      /\ steady[n] => Fits(c, s, own)
  BY <1>1, <1>2, <1>3, <1>4, <1>5 DEF SourceInv, Knows, Tells
<1>9. PICK middle \in Nat : /\ middle = Middle(s)
                            /\ s.low <= middle /\ middle <= s.high
  BY <1>6, <1>7 DEF Middle
<1>10. steady[n] => s.remote_height < Len(c)
  BY <1>5, <1>8 DEF Fits
<1>11. CASE r.hash = own[middle+1]
  <2>1. PICK search : search = AskHash(s, s.remote_height, middle + 1, s.high,
                                       middle)
    OBVIOUS
  <2>2. PICK fetch : fetch = AskBlocks(s, middle, <<>>)
    OBVIOUS
  <2>3. Proceed(n, search) \/ Proceed(n, fetch)
    BY <1>1, <1>3, <1>4, <1>9, <1>11, <2>1, <2>2 DEF ReceiveHash
  <2>4. middle < Len(c) /\ c[middle+1] = own[middle+1]
    BY <1>8, <1>9, <1>11
  <2>5. CASE Proceed(n, search)
    <3>1. /\ search.pc = "hash" /\ search.low = middle + 1
          /\ search.common_height = middle
          /\ search.remote_height = s.remote_height
      BY <2>1 DEF AskHash
    <3>2. search.common_height = search.low - 1
      BY <1>9, <3>1
    <3>3. steady[n] => Fits(c, search, own)
      BY <1>10, <2>4, <3>1 DEF Fits
    <3>4. Knows(c, steady[n], search, NoResponse, own)
      BY <1>8, <3>1, <3>2, <3>3 DEF Knows, Tells, NoResponse
    <3>. QED  BY <1>2, <1>4, <2>5, <3>1, <3>4, SourceProceeds
  <2>6. CASE Proceed(n, fetch)
    <3>1. /\ fetch.pc = "blocks" /\ fetch.common_height = middle
          /\ fetch.remote_height = s.remote_height
          /\ fetch.received_blocks = <<>>
      BY <2>2 DEF AskBlocks
    <3>2. Cursor(fetch) = middle + 1 /\ Cursor(fetch) <= Len(c)
      BY <1>8, <1>9, <2>4, <3>1 DEF Cursor
    <3>3. steady[n] => Fits(c, fetch, own)
      BY <1>10, <2>4, <3>1, <3>2 DEF Fits, ReadFrom
    <3>4. Knows(c, steady[n], fetch, NoResponse, own)
      BY <1>8, <3>1, <3>3 DEF Knows, Tells, NoResponse
    <3>. QED  BY <1>2, <1>4, <2>6, <3>1, <3>4, SourceProceeds
  <2>. QED  BY <2>3, <2>5, <2>6
<1>12. CASE r.hash # own[middle+1]
  <2>1. middle # 0
    <3>1. c[1] = GenesisHash /\ own[1] = GenesisHash
      BY <1>7, <1>8 DEF Linked
    <3>. QED  BY <1>8, <1>9, <1>12, <3>1
  <2>2. PICK search : search = AskHash(s, s.remote_height, s.low, middle - 1,
                                       s.common_height)
    OBVIOUS
  <2>3. PICK fetch : fetch = AskBlocks(s, s.common_height, <<>>)
    OBVIOUS
  <2>4. \/ Proceed(n, search)
        \/ s.common_height >= 0 /\ Proceed(n, fetch)
    <3>1. s.low <= middle - 1 \/ s.common_height >= 0
      BY <1>6, <1>8, <1>9, <2>1
    <3>2. IF s.low <= middle - 1 THEN Proceed(n, search)
          ELSE IF s.common_height < 0 THEN Abort(n) ELSE Proceed(n, fetch)
      BY <1>1, <1>3, <1>4, <1>9, <1>12, <2>2, <2>3 DEF ReceiveHash
    <3>. QED  BY <1>6, <3>1, <3>2
  <2>5. CASE Proceed(n, search)
    <3>1. /\ search.pc = "hash" /\ search.low = s.low
          /\ search.common_height = s.common_height
          /\ search.remote_height = s.remote_height
      BY <2>2 DEF AskHash
    <3>2. steady[n] => Fits(c, search, own)
      BY <1>5, <1>8, <3>1 DEF Fits
    <3>3. Knows(c, steady[n], search, NoResponse, own)
      BY <1>8, <3>1, <3>2 DEF Knows, Tells, NoResponse
    <3>. QED  BY <1>2, <1>4, <2>5, <3>1, <3>3, SourceProceeds
  <2>6. CASE s.common_height >= 0 /\ Proceed(n, fetch)
    <3>1. /\ fetch.pc = "blocks" /\ fetch.common_height = s.common_height
          /\ fetch.remote_height = s.remote_height
          /\ fetch.received_blocks = <<>>
      BY <2>3 DEF AskBlocks
    <3>2. Cursor(fetch) = s.common_height + 1
      BY <1>6, <3>1 DEF Cursor
    <3>3. steady[n] => s.common_height < Len(c)
                         /\ c[s.common_height+1] = own[s.common_height+1]
      BY <1>5, <1>8, <2>6 DEF Fits
    <3>4. steady[n] => Cursor(fetch) <= Len(c)
      BY <1>6, <1>8, <3>2, <3>3
    <3>5. steady[n] => Fits(c, fetch, own)
      BY <1>10, <3>1, <3>3, <3>4 DEF Fits, ReadFrom
    <3>6. Knows(c, steady[n], fetch, NoResponse, own)
      BY <1>8, <3>1, <3>5 DEF Knows, Tells, NoResponse
    <3>. QED  BY <1>2, <1>4, <2>6, <3>1, <3>6, SourceProceeds
  <2>. QED  BY <2>4, <2>5, <2>6
<1>. QED  BY <1>11, <1>12

LEMMA Concatenation ==
    ASSUME NEW a \in Seq(Block), NEW b \in Seq(Block)
    PROVE  /\ a \o b \in Seq(Block) /\ Len(a \o b) = Len(a) + Len(b)
           /\ \A i \in 1..Len(a) : (a \o b)[i] = a[i]
           /\ \A i \in 1..Len(b) : (a \o b)[Len(a) + i] = b[i]
OBVIOUS

\* The chain a sync puts together, from its own blocks up to height h, those it
\* had and the last batch, which was read from the chain c.
Candidate(own, h, blocks) == SubSeq(own, 1, h + 1) \o blocks

LEMMA Joined ==
    ASSUME NEW c \in Seq(Block), NEW own \in Seq(Block), Linked(c),
           NEW old \in Seq(Block), NEW batch \in Seq(Block), batch # <<>>,
           NEW h \in Nat, h < Len(own),
           h + 1 + Len(old) + Len(batch) <= Len(c),
           ReadFrom(c, h + 1 + Len(old), batch)
    PROVE  LET candidate == Candidate(own, h, old \o batch)
               t == h + 1 + Len(old) + Len(batch)
           IN  /\ candidate \in Seq(Block) /\ Len(candidate) = t
               /\ candidate[t] = c[t]
               /\ Linked(own) /\ c[h+1] = own[h+1] /\ ReadFrom(c, h + 1, old)
                  => ReadFrom(c, 0, candidate)
<1>0. PICK m \in Nat, k \in Nat \ {0}, t \in Nat :
         m = Len(old) /\ k = Len(batch) /\ t = h + 1 + m + k
  OBVIOUS
<1>a. /\ t <= Len(c) /\ ReadFrom(c, h + 1 + m, batch)
  BY <1>0
<1>b. PICK candidate : candidate = Candidate(own, h, old \o batch)
  OBVIOUS
<1>1. PICK base : base = SubSeq(own, 1, h + 1)
  OBVIOUS
<1>2. /\ base \in Seq(Block) /\ Len(base) = h + 1
      /\ \A i \in 1..h+1 : base[i] = own[i]
  BY <1>1
<1>3. PICK rest : rest = old \o batch
  OBVIOUS
<1>4. /\ rest \in Seq(Block) /\ Len(rest) = m + k
      /\ \A i \in 1..m : rest[i] = old[i]
      /\ \A i \in 1..k : rest[m + i] = batch[i]
  BY <1>0, <1>3, Concatenation
<1>5. /\ candidate \in Seq(Block) /\ Len(candidate) = h + 1 + (m + k)
      /\ \A i \in 1..h+1 : candidate[i] = base[i]
      /\ \A i \in 1..m+k : candidate[h + 1 + i] = rest[i]
  <2>1. candidate = base \o rest
    BY <1>b, <1>1, <1>3 DEF Candidate
  <2>2. /\ base \o rest \in Seq(Block)
        /\ Len(base \o rest) = Len(base) + Len(rest)
        /\ \A i \in 1..Len(base) : (base \o rest)[i] = base[i]
        /\ \A i \in 1..Len(rest) : (base \o rest)[Len(base) + i] = rest[i]
    BY <1>2, <1>4, Concatenation
  <2>. QED  BY <1>2, <1>4, <2>1, <2>2
<1>6. \A i \in 1..k : candidate[h + 1 + m + i] = c[h + 1 + m + i]
  <2>1. ASSUME NEW i \in 1..k
        PROVE  candidate[h + 1 + m + i] = c[h + 1 + m + i]
    <3>1. m + i \in 1..m+k /\ h + 1 + m + i = h + 1 + (m + i)
      OBVIOUS
    <3>. QED  BY <1>0, <1>a, <1>4, <1>5, <3>1 DEF ReadFrom
  <2>. QED  BY <2>1
<1>7. candidate[h + 1 + m + k] = c[h + 1 + m + k]
  <2>1. k \in 1..k
    OBVIOUS
  <2>. QED  BY <1>6, <2>1
<1>8. ASSUME Linked(own), c[h+1] = own[h+1],
             ReadFrom(c, h + 1, old), NEW i \in 1..h+1+m+k
      PROVE  candidate[i] = c[i]
  <2>1. CASE i \in 1..h+1
    <3>1. h + 1 \in 1..Len(c) /\ h + 1 \in 1..Len(own)
      <4>1. Len(c) \in Nat /\ Len(own) \in Nat
        OBVIOUS
      <4>2. \A x \in Nat, y \in Nat :
              h + 1 + m + k <= x /\ h < y => h + 1 \in 1..x /\ h + 1 \in 1..y
        OBVIOUS
      <4>. QED  BY <1>0, <1>a, <4>1, <4>2
    <3>2. c[i] = own[i]
      BY <1>8, <2>1, <3>1, LinkedAgree
    <3>. QED  BY <1>2, <1>5, <2>1, <3>2
  <2>2. CASE h + 1 < i /\ i <= h + 1 + m
    <3>1. PICK j \in 1..m : i = h + 1 + j
      <4>1. i - (h + 1) \in 1..m /\ i = h + 1 + (i - (h + 1))
        BY <2>2
      <4>. QED  BY <4>1
    <3>2. j \in 1..m+k
      OBVIOUS
    <3>. QED  BY <1>0, <1>4, <1>5, <1>8, <3>1, <3>2 DEF ReadFrom
  <2>3. CASE h + 1 + m < i
    <3>1. PICK j \in 1..k : i = h + 1 + m + j
      <4>1. i - (h + 1 + m) \in 1..k /\ i = h + 1 + m + (i - (h + 1 + m))
        BY <2>3
      <4>. QED  BY <4>1
    <3>. QED  BY <1>6, <3>1
  <2>. QED  BY <2>1, <2>2, <2>3
<1>9. h + 1 + (m + k) = t
  BY <1>0
<1>10. Linked(own) /\ c[h+1] = own[h+1]
         /\ ReadFrom(c, h + 1, old)
       => ReadFrom(c, 0, candidate)
  BY <1>0, <1>5, <1>8, <1>9 DEF ReadFrom
<1>11. candidate[t] = c[t]
  BY <1>0, <1>7
<1>12. t = h + 1 + Len(old) + Len(batch)
  BY <1>0
<1>. QED  BY <1>b, <1>5, <1>9, <1>10, <1>11, <1>12

\* What a sync adopts ends with a block of the chain its last batch was read
\* from; it is the beginning of that chain if all answers continue each other.
LEMMA CandidateJoined ==
    ASSUME NEW c \in Seq(Block), Linked(c), NEW own \in Seq(Block),
           NEW s \in Asked, s.pc = "blocks", s.common_height < Len(own),
           NEW batch \in Seq(Block), Len(batch) = ToHeight(s) - Cursor(s),
           Cursor(s) <= s.remote_height, ToHeight(s) <= Len(c),
           ReadFrom(c, Cursor(s), batch),
           s.common_height + 1 + Len(s.received_blocks \o batch)
             > s.remote_height
    PROVE  LET t == s.remote_height + 1
               candidate == Candidate(own, s.common_height,
                                      s.received_blocks \o batch)
           IN  /\ candidate \in Seq(Block) /\ t \in 1..Len(c)
               /\ Len(candidate) = t /\ candidate[t] = c[t]
               /\ Linked(own) /\ Fits(c, s, own) => ReadFrom(c, 0, candidate)
<1>0. PICK candidate : candidate = Candidate(own, s.common_height,
                                             s.received_blocks \o batch)
  OBVIOUS
<1>1. PICK h \in Nat : h = s.common_height
  BY DEF Asked
<1>2. PICK old \in Seq(Block) : old = s.received_blocks
  BY DEF Asked
<1>3. PICK m \in Nat : m = Len(old)
  <2>1. \A x \in Seq(Block) : Len(x) \in Nat
    OBVIOUS
  <2>. QED  BY <2>1
<1>4. PICK k \in Nat : k = Len(batch)
  OBVIOUS
<1>5. PICK t \in Nat : t = s.remote_height + 1 /\ s.remote_height \in Nat
  BY DEF Asked
<1>6. Cursor(s) = h + 1 + m
  BY <1>1, <1>2, <1>3 DEF Cursor
<1>7. Len(s.received_blocks \o batch) = m + k
  BY <1>2, <1>3, <1>4, Concatenation
<1>8. h + 1 + m + k = t /\ ToHeight(s) = t /\ k # 0
  <2>1. h + 1 + (m + k) > s.remote_height
    BY <1>1, <1>7
  <2>2. ToHeight(s) <= t /\ ToHeight(s) \in Int
    BY <1>5, <1>6, ChainSyncAssumption DEF ToHeight, Least
  <2>3. k = ToHeight(s) - (h + 1 + m) /\ h + 1 + m <= s.remote_height
    BY <1>4, <1>6
  <2>4. ASSUME NEW to \in Int, to <= t, k = to - (h + 1 + m),
               NEW r \in Nat, t = r + 1, h + 1 + m <= r, h + 1 + (m + k) > r
        PROVE  h + 1 + m + k = t /\ to = t /\ k # 0
    BY <2>4
  <2>. QED  BY <1>5, <2>1, <2>2, <2>3, <2>4
<1>9. PICK x \in Nat : x = Len(c)
  OBVIOUS
<1>10. t \in 1..x
  <2>1. t <= x
    BY <1>8, <1>9
  <2>. QED  BY <1>5, <1>9, <2>1
<1>11. /\ h < Len(own) /\ t <= Len(c) /\ t = h + 1 + m + k
       /\ ReadFrom(c, h + 1 + m, batch)
       /\ candidate = Candidate(own, h, old \o batch)
  BY <1>0, <1>1, <1>2, <1>4, <1>6, <1>8
<1>12. /\ candidate \in Seq(Block) /\ Len(candidate) = t
       /\ candidate[t] = c[t]
       /\ Linked(own) /\ c[h+1] = own[h+1]
            /\ ReadFrom(c, h + 1, old)
          => ReadFrom(c, 0, candidate)
  <2>1. batch # <<>>
    BY <1>4, <1>8
  <2>2. LET cand == Candidate(own, h, old \o batch)
            u == h + 1 + Len(old) + Len(batch)
        IN  /\ cand \in Seq(Block) /\ Len(cand) = u
            /\ cand[u] = c[u]
            /\ Linked(own) /\ c[h+1] = own[h+1] /\ ReadFrom(c, h + 1, old)
               => ReadFrom(c, 0, cand)
    <3>1. /\ h < Len(own)
          /\ h + 1 + Len(old) + Len(batch) <= Len(c)
          /\ ReadFrom(c, h + 1 + Len(old), batch)
      BY <1>3, <1>4, <1>11
    <3>. QED  BY <2>1, <3>1, Joined
  <2>. QED  BY <1>3, <1>4, <1>11, <2>2
<1>13. Fits(c, s, own) => c[h+1] = own[h+1] /\ ReadFrom(c, h + 1, old)
  BY <1>1, <1>2, <1>3 DEF Fits
<1>. QED  BY <1>0, <1>5, <1>9, <1>10, <1>12, <1>13

LEMMA ReadOn ==
    ASSUME NEW c \in Seq(Block), NEW first \in Nat, NEW old \in Seq(Block),
           NEW batch \in Seq(Block), ReadFrom(c, first, old),
           ReadFrom(c, first + Len(old), batch)
    PROVE  ReadFrom(c, first, old \o batch)
<1>1. PICK m \in Nat, k \in Nat : m = Len(old) /\ k = Len(batch)
  OBVIOUS
<1>2. PICK rest : rest = old \o batch
  OBVIOUS
<1>3. /\ Len(rest) = m + k
      /\ \A i \in 1..m : rest[i] = old[i]
      /\ \A i \in 1..k : rest[m + i] = batch[i]
  BY <1>1, <1>2, Concatenation
<1>4. ASSUME NEW i \in 1..m+k PROVE rest[i] = c[first + i]
  <2>1. CASE i <= m
    BY <1>1, <1>3, <2>1 DEF ReadFrom
  <2>2. CASE m < i
    <3>1. PICK j \in 1..k : i = m + j
      <4>1. i - m \in 1..k /\ i = m + (i - m)
        BY <2>2
      <4>. QED  BY <4>1
    <3>2. first + m + j = first + i
      BY <3>1
    <3>. QED  BY <1>1, <1>3, <3>1, <3>2 DEF ReadFrom
  <2>. QED  BY <2>1, <2>2
<1>. QED  BY <1>2, <1>3, <1>4 DEF ReadFrom

\* No batch is refused, and what is adopted begins the chain of the peer.
LEMMA SourceBlocks ==
    ASSUME Inv, Remember, NEW n \in Nodes, PeerInv(n), SourceInv(n),
           Receive(n), ReceiveBlocks(n)
    PROVE  SourceInv(n)' /\ Follows(n)
<1>1. PICK s : s = sync[n]
  OBVIOUS
<1>2. PICK c : c = source[n]
  OBVIOUS
<1>3. PICK r : r = response[n]
  OBVIOUS
<1>4. PICK own : own = chain[n]
  OBVIOUS
<1>5. PICK batch : batch = r.blocks
  OBVIOUS
<1>6. /\ Waiting(n) /\ s.pc = "blocks" /\ r.type = "blocks"
      /\ r # NoResponse /\ batch \in Seq(Block)
  BY <1>1, <1>3, <1>5 DEF Inv, TypeOK, NodeInv, ReceiveBlocks, Response,
                          Refused, NoResponse
<1>7. /\ s \in Asked /\ s.common_height \in Nat /\ s.remote_height \in Nat
      /\ s.received_blocks \in Seq(Block)
  BY <1>1, <1>6, WaitingAsked DEF Inv, Asked
<1>8. /\ own \in Seq(Block) /\ own # <<>> /\ Linked(own)
      /\ s.common_height < Len(own) /\ s.remote_height > HeightOf(own)
  BY <1>1, <1>4, <1>6 DEF Inv, TypeOK, NodeInv, Basis
<1>9. /\ c \in Seq(Block) /\ c # <<>> /\ Linked(c)
      /\ steady[n] => Fits(c, s, own)
      /\ ToHeight(s) <= Len(c)
      /\ ReadFrom(c, Cursor(s), batch)
  BY <1>1, <1>2, <1>3, <1>4, <1>5, <1>6 DEF SourceInv, Knows, Tells
<1>10. Cursor(s) <= s.remote_height /\ Len(batch) = ToHeight(s) - Cursor(s)
  BY <1>1, <1>3, <1>5, <1>6 DEF PeerInv
<1>11. Cursor(s) \in Nat /\ Len(batch) \in Nat /\ Len(c) \in Nat
  BY <1>6, <1>7, <1>9 DEF Cursor
<1>12. \A i \in 1..Len(batch) : Len(batch[i]) = Cursor(s) + i - 1
  <2>1. ASSUME NEW i \in 1..Len(batch)
        PROVE  Len(batch[i]) = Cursor(s) + i - 1
    <3>1. ToHeight(s) \in Int
      BY <1>7, <1>11, ChainSyncAssumption DEF ToHeight, Least
    <3>2. ASSUME NEW x \in Nat, NEW y \in Nat, NEW z \in Int, NEW l \in Nat,
                 y = z - x, z <= l, NEW j \in 1..y
          PROVE  x + j \in 1..l
      BY <3>2
    <3>3. Cursor(s) + i \in 1..Len(c)
      BY <1>9, <1>10, <1>11, <3>1, <3>2
    <3>4. batch[i] = c[Cursor(s) + i]
      BY <1>9 DEF ReadFrom
    <3>. QED  BY <1>9, <1>11, <3>3, <3>4, LinkedHeight
  <2>. QED  BY <2>1
<1>13. PICK received_blocks : received_blocks = s.received_blocks \o batch
  OBVIOUS
<1>14. PICK next : next = AskBlocks(s, s.common_height, received_blocks)
  OBVIOUS
<1>15. /\ next.pc = "blocks" /\ next.common_height = s.common_height
       /\ next.remote_height = s.remote_height
       /\ next.received_blocks = received_blocks
       /\ Cursor(next) = s.common_height + 1 + Len(received_blocks)
  BY <1>14 DEF AskBlocks, Cursor
<1>16. IF Cursor(next) <= s.remote_height THEN Proceed(n, next)
       ELSE Apply(n, s.common_height, received_blocks)
  BY <1>1, <1>3, <1>5, <1>10, <1>12, <1>13, <1>14 DEF ReceiveBlocks
<1>17. CASE Proceed(n, next)
  <2>1. ASSUME steady[n] PROVE Fits(c, next, own)
    <3>1. /\ s.remote_height < Len(c) /\ s.common_height < Len(c)
          /\ c[s.common_height+1] = own[s.common_height+1]
          /\ ReadFrom(c, s.common_height+1, s.received_blocks)
      BY <1>6, <1>9, <2>1 DEF Fits
    <3>2. ReadFrom(c, s.common_height+1, received_blocks)
      <4>1. PICK first \in Nat : first = s.common_height + 1
        BY <1>7
      <4>2. ReadFrom(c, first + Len(s.received_blocks), batch)
        BY <1>9, <4>1 DEF Cursor
      <4>. QED  BY <1>6, <1>7, <1>9, <1>13, <3>1, <4>1, <4>2, ReadOn
    <3>3. Cursor(next) <= Len(c)
      <4>1. Len(received_blocks) = Len(s.received_blocks) + Len(batch)
        BY <1>6, <1>7, <1>13, Concatenation
      <4>2. Len(s.received_blocks) \in Nat /\ ToHeight(s) \in Int
        BY <1>7, <1>11, ChainSyncAssumption DEF ToHeight, Least
      <4>3. Cursor(next) = ToHeight(s)
        <5>1. PICK h \in Nat, m \in Nat, k \in Nat, to \in Int :
                 /\ h = s.common_height /\ m = Len(s.received_blocks)
                 /\ k = Len(batch) /\ to = ToHeight(s)
          BY <1>7, <1>11, <4>2, Zenon
        <5>2. k = to - (h + 1 + m) /\ Len(received_blocks) = m + k
          BY <1>10, <4>1, <5>1, Zenon DEF Cursor
        <5>3. h + 1 + Len(received_blocks) = to
          BY <5>2
        <5>. QED  BY <1>15, <5>1, <5>3, Zenon
      <4>. QED  BY <1>9, <4>3
    <3>. QED  BY <1>15, <3>1, <3>2, <3>3 DEF Fits
  <2>2. Knows(c, steady[n], next, NoResponse, own)
    BY <1>9, <1>15, <2>1 DEF Knows, Tells, NoResponse
  <2>. QED  BY <1>2, <1>4, <1>15, <1>17, <2>2, SourceProceeds
<1>18. CASE ~ Cursor(next) <= s.remote_height
            /\ Apply(n, s.common_height, received_blocks)
  <2>1. PICK candidate :
           candidate = Candidate(own, s.common_height, received_blocks)
    OBVIOUS
  <2>2. PICK t : t = s.remote_height + 1
    OBVIOUS
  <2>3. s.common_height + 1 + Len(s.received_blocks \o batch) > s.remote_height
    <3>1. Len(received_blocks) \in Nat
      BY <1>6, <1>7, <1>13, Concatenation
    <3>. QED  BY <1>7, <1>13, <1>15, <1>18, <3>1
  <2>4. /\ candidate \in Seq(Block) /\ t \in 1..Len(c)
        /\ Len(candidate) = t /\ candidate[t] = c[t]
        /\ Fits(c, s, own) => ReadFrom(c, 0, candidate)
    BY <1>6, <1>7, <1>8, <1>9, <1>10, <1>13, <2>1, <2>2, <2>3, CandidateJoined
  <2>5. Len(candidate) > Len(own)
    BY <1>7, <1>8, <2>2, <2>4 DEF HeightOf
  <2>6. Linked(candidate) \/ steady[n] =>
          /\ Linked(candidate) /\ IsPrefix(candidate, c)
          /\ candidate = SubSeq(c, 1, t)
    BY <1>9, <2>4, LinkedPrefix
  <2>7. CASE Linked(candidate)
    <3>1. /\ chain' = [chain EXCEPT ![n] = candidate]
          /\ \/ sync' = [sync EXCEPT ![n] = AskHeight(s.peer, s.round + 1)]
             \/ sync' = [sync EXCEPT ![n] = Closing(s)]
      BY <1>1, <1>4, <1>18, <2>1, <2>5, <2>7 DEF Apply, Candidate
    <3>2. chain'[n] = candidate /\ sync'[n].pc \in {"height", "closing"}
      BY <3>1 DEF Inv, TypeOK, AskHeight, Closing
    <3>3. response'[n] = NoResponse
      BY DEF Inv, TypeOK, Receive
    <3>4. SourceInv(n)'
      BY <3>2, <3>3, SourceFresh DEF Over, Begins, Waiting
    <3>. QED  BY <1>1, <1>2, <2>2, <2>6, <2>7, <3>2, <3>4 DEF Follows
  <2>8. CASE ~ Linked(candidate)
    <3>1. Abort(n)
      BY <1>1, <1>4, <1>18, <2>1, <2>8 DEF Apply, Candidate
    <3>2. sync'[n].pc = "closing" /\ chain'[n] = chain[n]
      BY <3>1 DEF Inv, TypeOK, Abort, Proceed, Closing
    <3>3. SourceInv(n)'
      BY <3>2, SourceFresh DEF Over, Waiting
    <3>4. ~ steady[n]
      BY <2>6, <2>8
    <3>. QED  BY <3>2, <3>3, <3>4 DEF Follows
  <2>. QED  BY <2>7, <2>8
<1>. QED  BY <1>16, <1>17, <1>18

\* Every step keeps what the syncs know of their peers' chains.
LEMMA SourceStep ==
    ASSUME Inv, StepOK, \A n \in Nodes : PeerInv(n) /\ SourceInv(n),
           [HistoryNext]_hvars
    PROVE  \A n \in Nodes : SourceInv(n)' /\ (Receive(n) => Follows(n))
<1>. SUFFICES ASSUME NEW n \in Nodes
              PROVE  SourceInv(n)' /\ (Receive(n) => Follows(n))
  OBVIOUS
<1>1. CASE HistoryNext
  <2>1. Next /\ Remember
    BY <1>1 DEF HistoryNext
  <2>2. CASE Receive(n)
    <3>1. \/ ReceiveHeight(n) \/ ReceiveHash(n) \/ ReceiveBlocks(n)
          \/ ReceiveError(n)
      BY <2>2 DEF Receive
    <3>2. ~ ReceiveError(n)
      BY DEF ReceiveError, PeerInv
    <3>. QED  BY <2>1, <2>2, <3>1, <3>2, SourceHeight, SourceHash, SourceBlocks
  <2>3. CASE ~ Receive(n)
    <3>1. Over(n) \/ Begins(n) \/ Serve(n) \/ Stays(n)
      BY <2>1, <2>3, StepKinds
    <3>2. CASE Stays(n)
      <4>1. Waiting(n)' => ~ Answered(n)
        BY <3>2 DEF Stays, Answered
      <4>2. Waiting(n)' => source'[n] = source[n] /\ (steady'[n] <=> steady[n])
        BY <2>1, <4>1, Remembers
      <4>. QED  BY <2>3, <3>2, <4>2, SourceStays
    <3>. QED  BY <2>1, <2>3, <3>1, <3>2, SourceFresh, SourceServe
  <2>. QED  BY <2>2, <2>3
<1>2. CASE UNCHANGED hvars
  <2>1. UNCHANGED vars /\ source' = source /\ steady' = steady
    BY <1>2 DEF hvars
  <2>2. Stays(n)
    BY <2>1 DEF vars, Stays
  <2>3. SourceInv(n)'
    BY <2>1, <2>2, SourceStays
  <2>4. Receive(n) => FALSE
    <3>1. ASSUME Receive(n) PROVE FALSE
      <4>1. response'[n] = NoResponse /\ response[n] # NoResponse
        BY <3>1 DEF Inv, TypeOK, Receive, ReceiveHeight, ReceiveHash,
                    ReceiveBlocks, ReceiveError, NoResponse, Refused
      <4>. QED  BY <2>1, <4>1 DEF vars
    <3>. QED  BY <3>1
  <2>. QED  BY <2>3, <2>4
<1>. QED  BY <1>1, <1>2

\* p2p.ts:341-409: a sync adopts a beginning of the chain its peer had at the
\* last answer, and all of what was promised if that chain only grew.
THEOREM SyncFollowsPeer == HistorySpec => FollowsPeer
<1>. DEFINE Promises == \A n \in Nodes : PeerInv(n)
            Sources == \A n \in Nodes : SourceInv(n)
            Body == \A n \in Nodes : Receive(n) => Follows(n)
<1>1. HistoryInit => Inv /\ Promises /\ Sources
  <2>1. HistoryInit => Inv
    BY InitInv DEF HistoryInit
  <2>2. ASSUME HistoryInit, NEW n \in Nodes
        PROVE  PeerInv(n) /\ SourceInv(n)
    <3>1. sync[n] = Idle /\ response[n] = NoResponse
      BY <2>2 DEF HistoryInit, Init
    <3>. QED  BY <3>1 DEF PeerInv, SourceInv, Waiting, Idle, NoResponse, Refused
  <2>. QED  BY <2>1, <2>2
<1>2. Inv /\ Promises /\ Sources /\ [HistoryNext]_hvars =>
        (Inv /\ Promises /\ Sources)' /\ Body
  <2>. SUFFICES ASSUME Inv, Promises, Sources, [HistoryNext]_hvars
                PROVE  (Inv /\ Promises /\ Sources)' /\ Body
    OBVIOUS
  <2>1. [Next]_vars
    BY DEF HistoryNext, hvars
  <2>2. StepOK
    BY <2>1, Step
  <2>3. Promises'
    BY <2>1, <2>2, PeerStep
  <2>4. Sources' /\ Body
    BY <2>2, SourceStep
  <2>. QED  BY <2>2, <2>3, <2>4 DEF StepOK
<1>3. FollowsPeer <=> [][Body]_hvars
  BY DEF FollowsPeer, Follows
<1>. HIDE DEF Promises, Sources, Body
<1>. QED  BY <1>1, <1>2, <1>3, PTL DEF HistorySpec

=============================================================================
