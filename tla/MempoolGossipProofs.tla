------------------------- MODULE MempoolGossipProofs ------------------------
(***************************************************************************)
(* Theorems about MempoolGossip for every network, set of clients, miners  *)
(* and transactions, and chains of any length up to MaxChain.              *)
(*                                                                         *)
(* The argument about blocks: a block on its way was mined on some valid   *)
(* chain.  Its hash of the previous block covers that whole chain, so a    *)
(* node whose tip has this hash holds the same chain, and with it the same *)
(* balances and difficulty; there the block is as valid as at its miner.   *)
(*                                                                         *)
(* The argument about answers: a pool is admissible in its order, and so   *)
(* is what an answer takes of it.  On the same chain a reader that holds   *)
(* some of the answer has, at each transaction, exactly its sender's       *)
(* transactions before it pending, so that it is admitted there, too.      *)
(***************************************************************************)
EXTENDS MempoolGossip, ValidChainProofs, FiniteSetTheorems

\* A chain a node may hold.
GoodChain(c) ==
    /\ c \in Seq(Block) /\ c # <<>>
    /\ c[1] = genesis_block
    /\ ValidChain(c)

ValidNext(b, c) ==
    validate_next_block(b, get_latest_block(c), StateOf(c),
                        rebuild_next_difficulty(c))

\* What is on its way: a transaction of this version or another, a block mined
\* on some chain, or what is no block of this version.
MessageOK(msg) ==
    /\ msg.to \in Nodes
    /\ \/ msg.topic = "transactions" /\ msg.data \in SentTx
       \/ /\ msg.topic = "blocks"
          /\ Deserializable(msg.data) =>
                \E c : GoodChain(c) /\ ValidNext(deserialize_block(msg.data), c)

DataInv ==
    /\ chain \in [Nodes -> Seq(Block)]
    /\ \A n \in Nodes : GoodChain(chain[n])
    /\ tx_pool \in [Nodes -> Seq(Tx)]
    /\ \A msg \in gossip : MessageOK(msg)

CallInv ==
    /\ syncing_mempool_peers \in [Nodes -> SUBSET Nodes]
    /\ request \in [Slots -> RequestType]
    /\ \A link \in connected : link \subseteq Nodes /\ Cardinality(link) = 2
    /\ faults \in 0..MaxFaults
    /\ FlagHasRequest

Inv == DataInv /\ CallInv

-----------------------------------------------------------------------------
(* A hash determines a chain *)

\* What a hash says of a block.
ContentOf(b) == [height |-> b.height, difficulty |-> b.difficulty,
                 timestamp |-> b.timestamp, txs |-> b.txs]

LEMMA BlockHash ==
    ASSUME NEW b \in Block
    PROVE  /\ ContentOf(b) \in Content
           /\ b.prev \in Seq(Content)
           /\ block_hash(b) = Append(b.prev, ContentOf(b))
BY DEF block_hash, ContentOf, Block, Content, Digest

LEMMA AppendEqual ==
    ASSUME NEW S, NEW s \in Seq(S), NEW t \in Seq(S), NEW x \in S, NEW y \in S,
           Append(s, x) = Append(t, y)
    PROVE  s = t /\ x = y
<1>1. Len(s) = Len(t)
  OBVIOUS
<1>2. x = y
  BY <1>1
<1>3. \A i \in 1..Len(s) : s[i] = t[i]
  BY <1>1
<1>4. QED
  BY <1>1, <1>2, <1>3

\* Two blocks with one hash have the same parent and contents.
LEMMA EqualHash ==
    ASSUME NEW a \in Block, NEW b \in Block, block_hash(a) = block_hash(b)
    PROVE  a.prev = b.prev /\ ContentOf(a) = ContentOf(b)
<1>1. /\ ContentOf(a) \in Content /\ ContentOf(b) \in Content
      /\ a.prev \in Seq(Content) /\ b.prev \in Seq(Content)
      /\ Append(a.prev, ContentOf(a)) = Append(b.prev, ContentOf(b))
  BY BlockHash
<1>2. PICK s \in Seq(Content), t \in Seq(Content),
           x \in Content, y \in Content :
          /\ s = a.prev /\ t = b.prev /\ x = ContentOf(a) /\ y = ContentOf(b)
          /\ Append(s, x) = Append(t, y)
  BY <1>1
<1>3. s = t /\ x = y
  BY <1>2, AppendEqual
<1>4. QED
  BY <1>2, <1>3

LEMMA EqualBlock ==
    ASSUME NEW a \in Block, NEW b \in Block, block_hash(a) = block_hash(b),
           a.sealed, b.sealed
    PROVE  a = b
<1>1. a.prev = b.prev /\ ContentOf(a) = ContentOf(b)
  BY EqualHash
<1>2. /\ a.height = b.height /\ a.difficulty = b.difficulty
      /\ a.timestamp = b.timestamp /\ a.txs = b.txs
  BY <1>1, Zenon DEF ContentOf
<1>3. QED
  BY <1>1, <1>2 DEF Block

\* What a good chain says of its blocks.
LEMMA GoodChainBlocks ==
    ASSUME NEW c, GoodChain(c)
    PROVE  /\ Len(c) \in Nat \ {0}
           /\ \A i \in 1..Len(c) : c[i] \in Block /\ c[i].sealed
           /\ \A i \in 1..Len(c)-1 : c[i+1].prev = block_hash(c[i])
           /\ c[1].prev = <<>>
<1>1. c \in Seq(Block) /\ c # <<>> /\ c[1] = genesis_block /\ ValidChain(c)
  BY DEF GoodChain
<1>2. Len(c) \in Nat \ {0} /\ \A i \in 1..Len(c) : c[i] \in Block
  BY <1>1
<1>3. c[1].prev = <<>> /\ c[1].sealed
  BY <1>1 DEF genesis_block
<1>4. \A i \in 1..Len(c)-1 : c[i+1].prev = block_hash(c[i]) /\ c[i+1].sealed
  BY <1>1 DEF ValidChain, validate_next_block
<1>5. ASSUME NEW i \in 1..Len(c)
      PROVE  c[i].sealed
  <2>1. CASE i = 1
    BY <1>3, <2>1
  <2>2. CASE i # 1
    <3>1. i - 1 \in 1..Len(c)-1 /\ (i - 1) + 1 = i
      BY <1>2, <2>2
    <3>2. QED
      BY <1>4, <3>1
  <2>3. QED
    BY <2>1, <2>2
<1>6. QED
  BY <1>2, <1>3, <1>4, <1>5

\* The hash of a block is as long as the chain up to it.
LEMMA HashLength ==
    ASSUME NEW c, GoodChain(c)
    PROVE  \A i \in 1..Len(c) : Len(block_hash(c[i])) = i
<1> DEFINE n == Len(c) - 1
           P == {k \in 0..n : Len(block_hash(c[k+1])) = k + 1}
<1>1. /\ Len(c) \in Nat \ {0}
      /\ \A i \in 1..Len(c) : c[i] \in Block
      /\ \A i \in 1..Len(c)-1 : c[i+1].prev = block_hash(c[i])
      /\ c[1].prev = <<>>
  BY GoodChainBlocks
<1>2. ASSUME NEW i \in 1..Len(c)
      PROVE  /\ block_hash(c[i]) \in Seq(Content)
             /\ Len(block_hash(c[i])) = Len(c[i].prev) + 1
  <2>1. c[i] \in Block
    BY <1>1
  <2>2. /\ ContentOf(c[i]) \in Content /\ c[i].prev \in Seq(Content)
        /\ block_hash(c[i]) = Append(c[i].prev, ContentOf(c[i]))
    BY <2>1, BlockHash
  <2>3. QED
    BY <2>2
<1>3. 0 \in P
  <2>1. 1 \in 1..Len(c) /\ 0 \in 0..n /\ 0 + 1 = 1
    BY <1>1
  <2>2. Len(c[1].prev) = 0
    BY <1>1
  <2>3. Len(block_hash(c[1])) = 1
    BY <1>2, <2>1, <2>2
  <2>4. QED
    BY <2>1, <2>3
<1>4. ASSUME NEW i \in 1..n, i - 1 \in P
      PROVE  i \in P
  <2>1. /\ i \in 1..Len(c) /\ i + 1 \in 1..Len(c) /\ (i - 1) + 1 = i
        /\ i \in 0..n
    BY <1>1
  <2>2. Len(block_hash(c[i])) = i
    BY <1>4, <2>1
  <2>3. Len(block_hash(c[i+1])) = Len(block_hash(c[i])) + 1
    BY <1>1, <1>2, <2>1
  <2>4. QED
    BY <2>1, <2>2, <2>3
<1>5. P = 0..n
  <2> HIDE DEF P
  <2>1. P \in SUBSET (0..n)
    BY DEF P
  <2>2. n \in Nat
    BY <1>1
  <2>3. QED
    BY <1>3, <1>4, <2>1, <2>2, Induction
<1>6. ASSUME NEW i \in 1..Len(c)
      PROVE  Len(block_hash(c[i])) = i
  <2>1. i - 1 \in 0..n /\ (i - 1) + 1 = i
    BY <1>1
  <2>2. i - 1 \in P
    BY <1>5, <2>1
  <2>3. QED
    BY <2>1, <2>2
<1>7. QED
  BY <1>6

\* Nodes with the same tip hold the same chain.
LEMMA HashDeterminesChain ==
    ASSUME NEW c, NEW d, GoodChain(c), GoodChain(d),
           block_hash(get_latest_block(c)) = block_hash(get_latest_block(d))
    PROVE  c = d
<1> DEFINE n == Len(c)
           P == {k \in 0..n-1 : block_hash(c[n-k]) = block_hash(d[n-k])}
<1>1. /\ n \in Nat \ {0} /\ \A i \in 1..n : c[i] \in Block /\ c[i].sealed
      /\ \A i \in 1..n-1 : c[i+1].prev = block_hash(c[i])
  BY GoodChainBlocks
<1>2. /\ Len(d) \in Nat \ {0}
      /\ \A i \in 1..Len(d) : d[i] \in Block /\ d[i].sealed
      /\ \A i \in 1..Len(d)-1 : d[i+1].prev = block_hash(d[i])
  BY GoodChainBlocks
<1>3. Len(d) = n
  <2>1. Len(block_hash(c[n])) = n
    BY <1>1, HashLength
  <2>2. Len(block_hash(d[Len(d)])) = Len(d)
    BY <1>2, HashLength
  <2>3. QED
    BY <2>1, <2>2 DEF get_latest_block
<1>4. 0 \in P
  BY <1>1, <1>3 DEF get_latest_block
<1>5. ASSUME NEW k \in 1..n-1, k - 1 \in P
      PROVE  k \in P
  <2>1. /\ n - k \in 1..n-1 /\ n - (k - 1) = (n - k) + 1
        /\ (n - k) + 1 \in 1..n /\ k \in 0..n-1
    BY <1>1
  <2>2. block_hash(c[(n-k)+1]) = block_hash(d[(n-k)+1])
    BY <1>5, <2>1
  <2>3. c[(n-k)+1] \in Block /\ d[(n-k)+1] \in Block
    BY <1>1, <1>2, <1>3, <2>1
  <2>4. c[(n-k)+1].prev = d[(n-k)+1].prev
    BY <2>2, <2>3, EqualHash
  <2>5. block_hash(c[n-k]) = block_hash(d[n-k])
    BY <1>1, <1>2, <1>3, <2>1, <2>4
  <2>6. QED
    BY <2>1, <2>5
<1>6. P = 0..n-1
  <2> HIDE DEF P
  <2>1. P \in SUBSET (0..n-1) /\ n - 1 \in Nat
    BY <1>1 DEF P
  <2>2. QED
    BY <1>4, <1>5, <2>1, Induction
<1>7. ASSUME NEW i \in 1..n
      PROVE  c[i] = d[i]
  <2>1. n - i \in 0..n-1 /\ n - (n - i) = i
    BY <1>1
  <2>2. block_hash(c[i]) = block_hash(d[i])
    BY <1>6, <2>1
  <2>3. QED
    BY <1>1, <1>2, <1>3, <2>2, EqualBlock
<1>8. c \in Seq(Block) /\ d \in Seq(Block)
  BY DEF GoodChain
<1>9. QED
  BY <1>3, <1>7, <1>8

-----------------------------------------------------------------------------
(* What is sent is what arrives *)

LEMMA SerializeTx ==
    ASSUME NEW tx \in Tx
    PROVE  /\ serialize_tx(tx) = tx
           /\ DeserializableTx(tx) /\ deserialize_tx(tx) = tx
<1>1. tx = [field \in TxFields |-> tx[field]]
  BY DEF Tx, TxFields
<1>2. QED
  BY <1>1 DEF serialize_tx, DeserializableTx, deserialize_tx

\* What becomes a transaction on arrival, of whatever version, is one.
LEMMA SentType ==
    ASSUME NEW data \in SentTx, DeserializableTx(data)
    PROVE  deserialize_tx(data) \in Tx
<1>1. CASE data \in Tx
  BY <1>1, SerializeTx
<1>2. CASE data \in ForeignTxs
  BY <1>2, GossipAssumption DEF deserialize_tx, Restrict
<1>3. QED
  BY <1>1, <1>2 DEF SentTx

LEMMA SerializeBlock ==
    ASSUME NEW b \in Block
    PROVE  deserialize_block(serialize_block(b)) = b
<1> DEFINE txs == [i \in 1..Len(b.txs) |-> serialize_tx(b.txs[i])]
<1>1. b.txs \in Seq(Tx)
  BY DEF Block
<1>2. \A i \in 1..Len(b.txs) : /\ serialize_tx(b.txs[i]) = b.txs[i]
                                 /\ deserialize_tx(b.txs[i]) = b.txs[i]
  BY <1>1, SerializeTx
<1>3. b.txs = [i \in 1..Len(b.txs) |-> b.txs[i]]
  BY <1>1
<1>4. txs = b.txs
  <2>1. txs = [i \in 1..Len(b.txs) |-> b.txs[i]]
    BY <1>2
  <2>2. QED
    BY <1>3, <2>1
<1>5. deserialize_txs(b.txs) = b.txs
  <2>1. deserialize_txs(b.txs) = [i \in 1..Len(b.txs) |-> b.txs[i]]
    BY <1>2 DEF deserialize_txs
  <2>2. QED
    BY <1>3, <2>1
<1> HIDE DEF txs
<1>6. deserialize_block(serialize_block(b))
        = [height |-> b.height, prev |-> b.prev, difficulty |-> b.difficulty,
           timestamp |-> b.timestamp, txs |-> deserialize_txs(txs),
           sealed |-> b.sealed]
  BY DEF deserialize_block, serialize_block, txs
<1>7. QED
  BY <1>4, <1>5, <1>6 DEF Block

\* A transaction known already is one add_new_tx refuses.
Admitted(data, pool, c, state) ==
    DeserializableTx(data) /\ Admissible(deserialize_tx(data), pool, c, state)

LEMMA AcceptedAdmitted ==
    ASSUME NEW data, NEW pool, NEW c
    PROVE  Accepted(data, pool, c) <=> Admitted(data, pool, c, StateOf(c))
BY DEF Accepted, Admitted, Admissible, is_transaction_known

\* The pools between the entries of a list that come to a pool.
Offers(pools, pool, list, c, state) ==
    /\ pools \in [0..Len(list) -> Seq(Tx)] /\ pools[0] = pool
    /\ \A i \in 1..Len(list) :
           pools[i] = IF Admitted(list[i], pools[i-1], c, state)
                      THEN Append(pools[i-1], deserialize_tx(list[i]))
                      ELSE pools[i-1]

\* The pools of a node between the entries of a list that come to it.
LEMMA OfferedPools ==
    ASSUME DataInv, NEW n \in Nodes, NEW list \in Seq(SentTx)
    PROVE  \E pools :
               /\ Offers(pools, tx_pool[n], list, chain[n], StateOf(chain[n]))
               /\ Offered(n, list) = pools[Len(list)]
<1> DEFINE k == Len(list)
           turn == [i \in 1..k |-> [pool \in Seq(Tx) |->
                       IF Accepted(list[i], pool, chain[n])
                       THEN Append(pool, deserialize_tx(list[i])) ELSE pool]]
           pools == Iterate(turn, tx_pool[n], k)
<1>1. k \in Nat /\ tx_pool[n] \in Seq(Tx) /\ \A i \in 1..k : list[i] \in SentTx
  BY DEF DataInv
<1>2. turn \in [1..k -> [Seq(Tx) -> Seq(Tx)]]
  <2>1. ASSUME NEW i \in 1..k, NEW pool \in Seq(Tx)
        PROVE  (IF Accepted(list[i], pool, chain[n])
                THEN Append(pool, deserialize_tx(list[i])) ELSE pool) \in Seq(Tx)
    <3>1. Accepted(list[i], pool, chain[n]) => deserialize_tx(list[i]) \in Tx
      BY <1>1, SentType DEF Accepted
    <3>2. QED
      BY <3>1
  <2>2. QED
    BY <2>1
<1>3. Offered(n, list) = pools[k]
  BY DEF Offered
<1>4. \A i \in 1..k : \A pool \in Seq(Tx) :
          turn[i][pool] = IF Accepted(list[i], pool, chain[n])
                          THEN Append(pool, deserialize_tx(list[i])) ELSE pool
  OBVIOUS
<1> HIDE DEF turn, k
<1>5. pools \in [0..k -> Seq(Tx)] /\ Turns(pools, turn, tx_pool[n], k)
  BY <1>1, <1>2, IterateEquation
<1> HIDE DEF pools
<1>6. pools[0] = tx_pool[n]
  BY <1>5 DEF Turns
<1>7. ASSUME NEW i \in 1..k
      PROVE  pools[i] = IF Admitted(list[i], pools[i-1], chain[n],
                                    StateOf(chain[n]))
                        THEN Append(pools[i-1], deserialize_tx(list[i]))
                        ELSE pools[i-1]
  <2>1. i - 1 \in 0..k
    BY <1>1
  <2>2. pools[i-1] \in Seq(Tx) /\ pools[i] = turn[i][pools[i-1]]
    BY <1>5, <2>1 DEF Turns
  <2>3. pools[i] = IF Accepted(list[i], pools[i-1], chain[n])
                   THEN Append(pools[i-1], deserialize_tx(list[i]))
                   ELSE pools[i-1]
    BY <1>4, <2>2
  <2>4. QED
    BY <2>3, AcceptedAdmitted
<1>8. QED
  BY <1>3, <1>5, <1>6, <1>7 DEF k, Offers

LEMMA OfferedType ==
    ASSUME DataInv, NEW n \in Nodes, NEW list \in Seq(SentTx)
    PROVE  Offered(n, list) \in Seq(Tx)
<1>1. PICK pools : /\ Offers(pools, tx_pool[n], list, chain[n], StateOf(chain[n]))
                   /\ Offered(n, list) = pools[Len(list)]
  BY OfferedPools
<1>2. pools \in [0..Len(list) -> Seq(Tx)] /\ Len(list) \in 0..Len(list)
  BY <1>1 DEF Offers
<1>3. QED
  BY <1>1, <1>2

\* What is kept when a node takes over a good chain.
LEMMA AdoptData ==
    ASSUME DataInv, NEW n \in Nodes, NEW c, GoodChain(c), Adopt(n, c)
    PROVE  /\ chain' \in [Nodes -> Seq(Block)]
           /\ \A m \in Nodes : GoodChain(chain'[m])
           /\ tx_pool' \in [Nodes -> Seq(Tx)]
<1>1. c \in Seq(Block)
  BY DEF GoodChain
<1>2. revalidate_pending_transactions(tx_pool[n], c, StateOf(c)) \in Seq(Tx)
  BY RevalidatePending DEF DataInv
<1>3. QED
  BY <1>1, <1>2 DEF DataInv, Adopt

\* A block that is valid on the latest one makes a good chain.
LEMMA AppendGood ==
    ASSUME NEW c, GoodChain(c), NEW b, ValidNext(b, c)
    PROVE  b \in Block /\ GoodChain(Append(c, b))
<1>1. b \in Block
  BY DEF ValidNext, validate_next_block
<1>2. /\ c \in Seq(Block) /\ c # <<>>
      /\ c[1] = genesis_block /\ ValidChain(c)
  BY DEF GoodChain
<1>3. /\ Append(c, b) \in Seq(Block) /\ Append(c, b) # <<>>
      /\ Append(c, b)[1] = c[1]
  BY <1>1, <1>2, AppendFacts
<1>4. ValidChain(Append(c, b))
  BY <1>2, ValidChainAppend DEF ValidNext, StateOf
<1>5. QED
  BY <1>1, <1>2, <1>3, <1>4 DEF GoodChain

-----------------------------------------------------------------------------
(* Chains, pools and messages *)

LEMMA SendTxData ==
    ASSUME DataInv, NEW n \in Nodes, SendTx(n)
    PROVE  DataInv'
<1>1. PICK tx \in Requests, to \in SUBSET (Nodes \ {n}) :
          /\ tx_pool' = [tx_pool EXCEPT ![n] = Append(@, tx)]
          /\ gossip' = gossip \cup {TxMessage(m, tx) : m \in to}
          /\ chain' = chain
  BY DEF SendTx
<1>2. tx \in Tx
  BY GossipAssumption
<1>3. tx_pool' \in [Nodes -> Seq(Tx)]
  <2>1. Append(tx_pool[n], tx) \in Seq(Tx)
    BY <1>2 DEF DataInv
  <2>2. QED
    BY <1>1, <2>1 DEF DataInv
<1>4. ASSUME NEW m \in to
      PROVE  MessageOK(TxMessage(m, tx))
  BY <1>2, SerializeTx DEF MessageOK, TxMessage, SentTx
<1>5. QED
  BY <1>1, <1>3, <1>4 DEF DataInv, GoodChain

LEMMA ReceiveTxData ==
    ASSUME DataInv, NEW n \in Nodes, receive_tx(n)
    PROVE  DataInv'
<1>1. PICK msg \in gossip :
          /\ msg.topic = "transactions"
          /\ gossip' = gossip \ {msg}
          /\ tx_pool' = [tx_pool EXCEPT ![n] = Offered(n, << msg.data >>)]
          /\ chain' = chain
  BY DEF receive_tx
<1>2. << msg.data >> \in Seq(SentTx)
  <2>1. msg.data \in SentTx
    BY <1>1 DEF DataInv, MessageOK
  <2>2. QED
    BY <2>1
<1>3. Offered(n, << msg.data >>) \in Seq(Tx)
  <2>1. ASSUME NEW list \in Seq(SentTx)
        PROVE  Offered(n, list) \in Seq(Tx)
    BY OfferedType
  <2>2. QED
    BY <1>2, <2>1
<1>4. tx_pool' \in [Nodes -> Seq(Tx)]
  BY <1>1, <1>3 DEF DataInv
<1>5. QED
  BY <1>1, <1>4 DEF DataInv

\* A mined block is valid on the chain of its miner.
LEMMA MinedValid ==
    ASSUME DataInv, NEW n \in Nodes,
           NEW b, b = new_block(chain[n], rebuild_next_difficulty(chain[n]),
                                tx_pool[n], MinerOf[n],
                                get_latest_block(chain[n]).timestamp + BlockTime),
           b.difficulty <= HASH_DIGITS,
           BlockApplies(b, StateOf(chain[n]))
    PROVE  b \in Block /\ ValidNext(b, chain[n])
<1> DEFINE c == chain[n]
           d == rebuild_next_difficulty(c)
           now == get_latest_block(c).timestamp + BlockTime
<1>1. /\ c \in Seq(Block) /\ c # <<>> /\ c[1] = genesis_block
      /\ tx_pool[n] \in Seq(Tx) /\ MinerOf[n] \in Accounts
  BY GossipAssumption DEF DataInv, GoodChain
<1>2. d \in MIN_DIFFICULTY..MAX_DIFFICULTY
  <2> HIDE DEF c
  <2>1. DifficultiesOf(c) \in [0..Len(c)-1 -> MIN_DIFFICULTY..MAX_DIFFICULTY]
    BY <1>1, DifficultiesOfEquation
  <2>2. Len(c) - 1 \in 0..Len(c)-1
    BY <1>1
  <2>3. QED
    BY <2>1, <2>2 DEF rebuild_next_difficulty
<1>3. b.difficulty = d
  BY DEF new_block
<1>4. d \in 1..HASH_DIGITS
  BY <1>2, <1>3, DifficultyAssumption
<1>5. now \in Int
  <2> HIDE DEF c
  <2>1. get_latest_block(c) \in Block
    BY <1>1 DEF get_latest_block
  <2>2. QED
    BY <2>1, GossipAssumption DEF Block
<1> HIDE DEF now, d, c
<1>6. b = new_block(c, d, tx_pool[n], MinerOf[n], now)
  BY DEF now, d, c
<1>7. BlockApplies(b, StateOf(c))
  BY DEF c
<1>8. b \in Block
  BY <1>1, <1>4, <1>5, <1>6, NewBlockType
<1>9. validate_next_block(b, get_latest_block(c), StateOf(c), d)
  BY <1>1, <1>4, <1>5, <1>6, <1>7, NewBlockValid
<1>10. QED
  BY <1>8, <1>9 DEF ValidNext, d, c

LEMMA MineBlockData ==
    ASSUME DataInv, NEW n \in Nodes, MineBlock(n)
    PROVE  DataInv'
<1>1. PICK b : b = new_block(chain[n], rebuild_next_difficulty(chain[n]),
                             tx_pool[n], MinerOf[n],
                             get_latest_block(chain[n]).timestamp + BlockTime)
  OBVIOUS
<1>2. /\ b.difficulty <= HASH_DIGITS
      /\ BlockApplies(b, StateOf(chain[n]))
      /\ chain' = [chain EXCEPT ![n] = Append(chain[n], b)]
      /\ tx_pool' = [tx_pool EXCEPT ![n] = <<>>]
  BY <1>1 DEF MineBlock
<1>3. PICK to \in SUBSET (Nodes \ {n}) :
          gossip' = gossip \cup {BlockMessage(m, b) : m \in to}
  BY <1>1 DEF MineBlock
<1>4. b \in Block /\ ValidNext(b, chain[n]) /\ GoodChain(chain[n])
  BY <1>1, <1>2, MinedValid DEF DataInv
<1>5. GoodChain(Append(chain[n], b))
  BY <1>4, AppendGood
<1>6. /\ chain' \in [Nodes -> Seq(Block)]
      /\ \A m \in Nodes : GoodChain(chain'[m])
  BY <1>2, <1>5 DEF DataInv, GoodChain
<1>7. tx_pool' \in [Nodes -> Seq(Tx)]
  BY <1>2 DEF DataInv
<1>8. ASSUME NEW m \in to
      PROVE  MessageOK(BlockMessage(m, b))
  <2>1. deserialize_block(serialize_block(b)) = b
    BY <1>4, SerializeBlock
  <2>2. QED
    BY <1>4, <2>1 DEF MessageOK, BlockMessage
<1>9. QED
  BY <1>3, <1>6, <1>7, <1>8 DEF DataInv

LEMMA ForeignMessageData ==
    ASSUME DataInv, NEW n \in Nodes, ForeignMessage(n)
    PROVE  DataInv'
<1>1. PICK msg \in [to: {n}, topic: {"blocks"}, data: ForeignBlocks]
                  \cup [to: {n}, topic: {"transactions"}, data: ForeignTxs] :
          /\ gossip' = gossip \cup {msg}
          /\ chain' = chain /\ tx_pool' = tx_pool
  BY DEF ForeignMessage
<1>2. MessageOK(msg)
  BY <1>1, GossipAssumption DEF MessageOK, SentTx
<1>3. QED
  BY <1>1, <1>2 DEF DataInv

LEMMA ReceiveBlockData ==
    ASSUME DataInv, NEW n \in Nodes, receive_block(n)
    PROVE  DataInv'
<1>1. PICK msg \in gossip :
          /\ gossip' = gossip \ {msg}
          /\ \/ /\ ValidNext(deserialize_block(msg.data), chain[n])
                /\ Adopt(n, Append(chain[n], deserialize_block(msg.data)))
             \/ UNCHANGED <<chain, tx_pool>>
  BY DEF receive_block, ValidNext
<1>2. /\ chain' \in [Nodes -> Seq(Block)]
      /\ \A m \in Nodes : GoodChain(chain'[m])
      /\ tx_pool' \in [Nodes -> Seq(Tx)]
  <2>1. CASE UNCHANGED <<chain, tx_pool>>
    BY <2>1 DEF DataInv
  <2>2. CASE /\ ValidNext(deserialize_block(msg.data), chain[n])
             /\ Adopt(n, Append(chain[n], deserialize_block(msg.data)))
    <3>1. GoodChain(Append(chain[n], deserialize_block(msg.data)))
      BY <2>2, AppendGood DEF DataInv
    <3>2. QED
      BY <2>2, <3>1, AdoptData
  <2>3. QED
    BY <1>1, <2>1, <2>2
<1>3. QED
  BY <1>1, <1>2 DEF DataInv

LEMMA OtherData ==
    ASSUME DataInv, NEW n \in Nodes, NEW m \in Nodes,
           \/ SyncChain(n, m) \/ Connect(n, m) \/ Disconnect(n, m) \/ Restart(n)
    PROVE  DataInv'
<1>1. CASE SyncChain(n, m)
  <2>1. Adopt(n, chain[m]) /\ gossip' = gossip
    BY <1>1 DEF SyncChain
  <2>2. GoodChain(chain[m])
    BY DEF DataInv
  <2>3. QED
    BY <2>1, <2>2, AdoptData DEF DataInv
<1>2. CASE Connect(n, m) \/ Disconnect(n, m)
  BY <1>2 DEF DataInv, Connect, Disconnect
<1>3. CASE Restart(n)
  BY <1>3 DEF DataInv, Restart
<1>4. QED
  BY <1>1, <1>2, <1>3

-----------------------------------------------------------------------------
(* Calls of request_mempool *)

\* A running call is a record, and not NoRequest.
LEMMA CallRecord ==
    ASSUME NEW q \in RequestType, q.pc # "none"
    PROVE  /\ q # NoRequest
           /\ q \in [pc: {"dialing", "answered", "closing", "failed"}, by: Nodes,
                     peer: Nodes, transactions: Seq(SentTx), basis: Seq(Block)]
BY DEF RequestType, NoRequest

\* A new or continued call.
LEMMA CallType ==
    ASSUME NEW n \in Nodes, NEW m \in Nodes,
           NEW pc \in {"dialing", "closing", "failed"}
    PROVE  /\ Call(n, m, pc) \in RequestType
           /\ Call(n, m, pc) # NoRequest
           /\ Call(n, m, pc).by = n /\ Call(n, m, pc).peer = m
BY DEF Call, RequestType, NoRequest

\* A call that goes on, still of that node for that peer.
LEMMA CallGoesOn ==
    ASSUME CallInv, NEW r \in Slots, NEW q \in RequestType,
           request[r] # NoRequest, q # NoRequest,
           q.by = request[r].by, q.peer = request[r].peer,
           request' = [request EXCEPT ![r] = q],
           UNCHANGED <<syncing_mempool_peers, connected>>,
           faults' \in 0..MaxFaults
    PROVE  CallInv'
<1>1. request' \in [Slots -> RequestType]
  BY DEF CallInv
<1>2. FlagHasRequest'
  <2>1. \A s \in Slots : /\ request[s] # NoRequest => request'[s] # NoRequest
                         /\ request'[s].by = request[s].by
                         /\ request'[s].peer = request[s].peer
    BY DEF CallInv
  <2>2. QED
    BY <2>1 DEF CallInv, FlagHasRequest
<1>3. QED
  BY <1>1, <1>2 DEF CallInv

LEMMA RequestMempoolInv ==
    ASSUME DataInv, CallInv, NEW n \in Nodes, NEW peer \in Nodes, NEW r \in Slots,
           request_mempool(n, peer, r)
    PROVE  DataInv' /\ CallInv'
<1> DEFINE q == Call(n, peer, "dialing")
<1>1. /\ request[r] = NoRequest
      /\ request' = [request EXCEPT ![r] = q]
      /\ syncing_mempool_peers' =
             [syncing_mempool_peers EXCEPT ![n] = @ \cup {peer}]
      /\ UNCHANGED <<chain, tx_pool, gossip, connected, faults>>
  BY DEF request_mempool, quiet
<1>2. q \in RequestType /\ q # NoRequest /\ q.by = n /\ q.peer = peer
  BY CallType
<1> HIDE DEF q
<1>3. request' \in [Slots -> RequestType] /\ request'[r] = q
  BY <1>1, <1>2 DEF CallInv
<1>4. \A s \in Slots : request[s] # NoRequest => request'[s] = request[s]
  BY <1>1 DEF CallInv
<1>5. FlagHasRequest'
  <2>1. ASSUME NEW m \in Nodes, NEW p \in syncing_mempool_peers'[m]
        PROVE  \E s \in Slots : /\ request'[s] # NoRequest
                                /\ request'[s].by = m
                                /\ request'[s].peer = p
    <3>1. CASE m = n /\ p = peer
      BY <1>2, <1>3, <3>1
    <3>2. CASE ~ (m = n /\ p = peer)
      <4>1. p \in syncing_mempool_peers[m]
        BY <1>1, <3>2 DEF CallInv
      <4>2. PICK s \in Slots : /\ request[s] # NoRequest
                               /\ request[s].by = m
                               /\ request[s].peer = p
        BY <4>1 DEF CallInv, FlagHasRequest
      <4>3. QED
        BY <1>4, <4>2
    <3>3. QED
      BY <3>1, <3>2
  <2>2. QED
    BY <2>1 DEF FlagHasRequest
<1>6. syncing_mempool_peers' \in [Nodes -> SUBSET Nodes]
  BY <1>1 DEF CallInv
<1>7. CallInv'
  BY <1>1, <1>3, <1>5, <1>6 DEF CallInv
<1>8. QED
  BY <1>1, <1>7 DEF DataInv

\* An answer is the beginning of a pool.
LEMMA SharedPrefix ==
    ASSUME NEW pool \in Seq(Tx)
    PROVE  /\ Least(Len(pool), MEMPOOL_LIMIT) \in 0..Len(pool)
           /\ Shared(pool) = SubSeq(pool, 1, Least(Len(pool), MEMPOOL_LIMIT))
           /\ Shared(pool) \in Seq(Tx) /\ Shared(pool) \in Seq(SentTx)
<1> DEFINE k == Least(Len(pool), MEMPOOL_LIMIT)
<1>1. k \in 0..Len(pool)
  BY GossipAssumption DEF Least
<1>2. \A i \in 1..k : pool[i] \in Tx /\ serialize_tx(pool[i]) = pool[i]
  BY <1>1, SerializeTx
<1>3. Shared(pool) = [i \in 1..k |-> pool[i]]
  BY <1>2 DEF Shared
<1> HIDE DEF k
<1>4. SubSeq(pool, 1, k) = [i \in 1..k |-> pool[i]]
  BY <1>1
<1>5. SubSeq(pool, 1, k) \in Seq(Tx)
  BY <1>1
<1>6. \A S : S \in Seq(Tx) => S \in Seq(SentTx)
  BY DEF SentTx
<1>7. QED
  BY <1>1, <1>3, <1>4, <1>5, <1>6 DEF k

LEMMA ServeMempoolInv ==
    ASSUME DataInv, CallInv, NEW r \in Slots, ServeMempool(r)
    PROVE  DataInv' /\ CallInv'
<1> DEFINE old == request[r]
           q == [old EXCEPT !.pc = "answered",
                            !.transactions = Shared(tx_pool[old.peer]),
                            !.basis = chain[old.peer]]
<1>1. /\ old.pc = "dialing"
      /\ request' = [request EXCEPT ![r] = q]
      /\ UNCHANGED <<chain, tx_pool, gossip, connected,
                     syncing_mempool_peers, faults>>
  BY DEF ServeMempool, quiet, CallInv
<1>2. /\ old # NoRequest
      /\ old \in [pc: {"dialing", "answered", "closing", "failed"}, by: Nodes,
                  peer: Nodes, transactions: Seq(SentTx), basis: Seq(Block)]
  <2>1. old \in RequestType /\ old.pc # "none"
    BY <1>1 DEF CallInv
  <2>2. QED
    BY <2>1, CallRecord
<1>3. Shared(tx_pool[old.peer]) \in Seq(SentTx) /\ chain[old.peer] \in Seq(Block)
  BY <1>2, SharedPrefix DEF DataInv
<1> HIDE DEF old
<1>4. /\ q \in RequestType /\ q # NoRequest
      /\ q.by = old.by /\ q.peer = old.peer
  BY <1>2, <1>3 DEF RequestType, NoRequest
<1> HIDE DEF q
<1>5. CallInv'
  BY <1>1, <1>2, <1>4, CallGoesOn DEF CallInv, old
<1>6. QED
  BY <1>1, <1>5 DEF DataInv

LEMMA ForeignAnswerInv ==
    ASSUME DataInv, CallInv, NEW r \in Slots, ForeignAnswer(r)
    PROVE  DataInv' /\ CallInv'
<1> DEFINE old == request[r]
<1>1. PICK answer \in ForeignAnswers :
          /\ old.pc = "dialing"
          /\ request' = [request EXCEPT ![r] =
                [old EXCEPT !.pc = "answered", !.transactions = answer,
                            !.basis = <<>>]]
          /\ UNCHANGED <<chain, tx_pool, gossip, connected,
                         syncing_mempool_peers>>
  BY DEF ForeignAnswer, quiet, CallInv
<1>0. faults' \in 0..MaxFaults
  BY GossipAssumption DEF ForeignAnswer, CallInv
<1> DEFINE q == [old EXCEPT !.pc = "answered", !.transactions = answer,
                            !.basis = <<>>]
<1>2. /\ old # NoRequest
      /\ old \in [pc: {"dialing", "answered", "closing", "failed"}, by: Nodes,
                  peer: Nodes, transactions: Seq(SentTx), basis: Seq(Block)]
  <2>1. old \in RequestType /\ old.pc # "none"
    BY <1>1 DEF CallInv
  <2>2. QED
    BY <2>1, CallRecord
<1>3. answer \in Seq(SentTx) /\ <<>> \in Seq(Block)
  BY GossipAssumption DEF SentTx
<1> HIDE DEF old
<1>4. /\ q \in RequestType /\ q # NoRequest
      /\ q.by = old.by /\ q.peer = old.peer
  BY <1>2, <1>3 DEF RequestType, NoRequest
<1>5. request' = [request EXCEPT ![r] = q]
  BY <1>1
<1> HIDE DEF q
<1>6. CallInv'
  BY <1>0, <1>1, <1>2, <1>4, <1>5, CallGoesOn DEF old
<1>7. QED
  BY <1>1, <1>6 DEF DataInv

LEMMA ReadMempoolInv ==
    ASSUME DataInv, CallInv, NEW r \in Slots, ReadMempool(r)
    PROVE  DataInv' /\ CallInv'
<1> DEFINE n == request[r].by
           q == Call(n, request[r].peer, "closing")
<1>1. /\ request[r].pc = "answered"
      /\ tx_pool' = [tx_pool EXCEPT ![n] = Offered(n, request[r].transactions)]
      /\ request' = [request EXCEPT ![r] = q]
      /\ UNCHANGED <<chain, gossip, connected, syncing_mempool_peers, faults>>
  BY DEF ReadMempool, quiet
<1>2. /\ request[r] # NoRequest
      /\ n \in Nodes /\ request[r].peer \in Nodes
      /\ request[r].transactions \in Seq(SentTx)
  <2>1. request[r] \in RequestType /\ request[r].pc # "none"
    BY <1>1 DEF CallInv
  <2>2. QED
    BY <2>1, CallRecord
<1>3. Offered(n, request[r].transactions) \in Seq(Tx)
  BY <1>2, OfferedType
<1>4. /\ q \in RequestType /\ q # NoRequest
      /\ q.by = n /\ q.peer = request[r].peer
  BY <1>2, CallType
<1> HIDE DEF q
<1>5. CallInv'
  BY <1>1, <1>2, <1>4, CallGoesOn DEF CallInv
<1>6. DataInv'
  BY <1>1, <1>2, <1>3 DEF DataInv
<1>7. QED
  BY <1>5, <1>6

LEMMA RequestFailsInv ==
    ASSUME DataInv, CallInv, NEW r \in Slots, RequestFails(r)
    PROVE  DataInv' /\ CallInv'
<1> DEFINE q == Call(request[r].by, request[r].peer, "failed")
<1>1. /\ request[r].pc # "none"
      /\ request' = [request EXCEPT ![r] = q]
      /\ faults' \in 0..MaxFaults
      /\ UNCHANGED <<chain, tx_pool, gossip, connected, syncing_mempool_peers>>
  BY GossipAssumption DEF RequestFails, quiet, CallInv
<1>2. /\ request[r] # NoRequest
      /\ request[r].by \in Nodes /\ request[r].peer \in Nodes
  <2>1. request[r] \in RequestType
    BY DEF CallInv
  <2>2. QED
    BY <1>1, <2>1, CallRecord
<1>3. /\ q \in RequestType /\ q # NoRequest
      /\ q.by = request[r].by /\ q.peer = request[r].peer
  BY <1>2, CallType
<1> HIDE DEF q
<1>4. CallInv'
  BY <1>1, <1>2, <1>3, CallGoesOn
<1>5. QED
  BY <1>1, <1>4 DEF DataInv

\* The end of one call removes its peer, and no other; a second call for the
\* same peer does no harm.
LEMMA FinishRequestInv ==
    ASSUME DataInv, CallInv, NEW r \in Slots, FinishRequest(r)
    PROVE  DataInv' /\ CallInv'
<1> DEFINE by == request[r].by
           peer == request[r].peer
<1>1. /\ request[r].pc # "none"
      /\ request' = [request EXCEPT ![r] = NoRequest]
      /\ syncing_mempool_peers' =
             [syncing_mempool_peers EXCEPT ![by] = @ \ {peer}]
      /\ UNCHANGED <<chain, tx_pool, gossip, connected, faults>>
  BY DEF FinishRequest, quiet
<1>2. by \in Nodes /\ peer \in Nodes
  <2>1. request[r] \in RequestType
    BY DEF CallInv
  <2>2. QED
    BY <1>1, <2>1, CallRecord
<1>3. /\ request' \in [Slots -> RequestType]
      /\ syncing_mempool_peers' \in [Nodes -> SUBSET Nodes]
  BY <1>1, <1>2 DEF CallInv, RequestType
<1>4. FlagHasRequest'
  <2>1. ASSUME NEW m \in Nodes, NEW p \in syncing_mempool_peers'[m]
        PROVE  \E s \in Slots : /\ request'[s] # NoRequest
                                /\ request'[s].by = m
                                /\ request'[s].peer = p
    <3>1. p \in syncing_mempool_peers[m] /\ ~ (m = by /\ p = peer)
      BY <1>1, <1>2 DEF CallInv
    <3>2. PICK s \in Slots : /\ request[s] # NoRequest
                             /\ request[s].by = m
                             /\ request[s].peer = p
      BY <3>1 DEF CallInv, FlagHasRequest
    <3>3. s # r
      BY <3>1, <3>2
    <3>4. request'[s] = request[s]
      BY <1>1, <3>3 DEF CallInv
    <3>5. QED
      BY <3>2, <3>4
  <2>2. QED
    BY <2>1 DEF FlagHasRequest
<1>5. CallInv'
  BY <1>1, <1>3, <1>4 DEF CallInv
<1>6. QED
  BY <1>1, <1>5 DEF DataInv

-----------------------------------------------------------------------------
(* The inductive invariant *)

LEMMA InitInv == Init => Inv
<1> SUFFICES ASSUME Init
             PROVE  Inv
  OBVIOUS
<1>1. GoodChain(RestoredChain) /\ <<>> \in Seq(Tx)
  BY GossipAssumption DEF GoodChain
<1>2. DataInv
  BY <1>1 DEF Init, DataInv, GoodChain
<1>3. CallInv
  BY GossipAssumption DEF Init, CallInv, RequestType, FlagHasRequest
<1>4. QED
  BY <1>2, <1>3 DEF Inv

LEMMA NetworkStutters ==
    ASSUME CallInv, UNCHANGED network
    PROVE  CallInv'
BY DEF CallInv, FlagHasRequest, network

LEMMA ConnectionsInv ==
    ASSUME CallInv, NEW n \in Nodes, NEW m \in Nodes,
           Connect(n, m) \/ Disconnect(n, m)
    PROVE  CallInv'
<1>1. /\ \/ n # m /\ connected' = connected \cup {{n, m}}
         \/ connected' = connected \ {{n, m}}
      /\ faults' \in 0..MaxFaults
      /\ request' = request
      /\ syncing_mempool_peers' \in [Nodes -> SUBSET Nodes]
      /\ \A k \in Nodes : syncing_mempool_peers'[k]
                            \subseteq syncing_mempool_peers[k]
  BY GossipAssumption DEF CallInv, Connect, Disconnect
<1>2. \A link \in connected' : link \subseteq Nodes /\ Cardinality(link) = 2
  <2>1. ASSUME n # m
        PROVE  Cardinality({n, m}) = 2
    <3>1. IsFiniteSet({n}) /\ Cardinality({n}) = 1
      BY FS_Singleton
    <3>2. Cardinality({n} \cup {m}) = Cardinality({n}) + 1
      BY <2>1, <3>1, FS_AddElement
    <3>3. {n} \cup {m} = {n, m}
      OBVIOUS
    <3>4. QED
      BY <3>1, <3>2, <3>3
  <2>2. ASSUME NEW link \in connected'
        PROVE  \/ link \in connected
               \/ link = {n, m} /\ Cardinality(link) = 2
    BY <1>1, <2>1
  <2>3. QED
    BY <2>2 DEF CallInv
<1>3. FlagHasRequest'
  BY <1>1 DEF CallInv, FlagHasRequest
<1>4. QED
  BY <1>1, <1>2, <1>3 DEF CallInv

LEMMA RestartInv ==
    ASSUME CallInv, NEW n \in Nodes, Restart(n)
    PROVE  CallInv'
<1>1. /\ faults' \in 0..MaxFaults /\ connected' \subseteq connected
      /\ request' = [r \in Slots |->
                        IF request[r] # NoRequest /\ request[r].by = n
                        THEN NoRequest ELSE request[r]]
      /\ syncing_mempool_peers' =
             [m \in Nodes |-> IF m = n THEN {}
                              ELSE syncing_mempool_peers[m] \ {n}]
  BY GossipAssumption DEF CallInv, Restart
<1>2. request' \in [Slots -> RequestType]
  BY <1>1 DEF CallInv, RequestType
<1>3. syncing_mempool_peers' \in [Nodes -> SUBSET Nodes]
  BY <1>1 DEF CallInv
<1>4. FlagHasRequest'
  <2>1. ASSUME NEW m \in Nodes, NEW p \in syncing_mempool_peers'[m]
        PROVE  \E s \in Slots : /\ request'[s] # NoRequest
                                /\ request'[s].by = m
                                /\ request'[s].peer = p
    <3>1. m # n /\ p \in syncing_mempool_peers[m]
      BY <1>1
    <3>2. PICK s \in Slots : /\ request[s] # NoRequest
                             /\ request[s].by = m
                             /\ request[s].peer = p
      BY <3>1 DEF CallInv, FlagHasRequest
    <3>3. request'[s] = request[s]
      BY <1>1, <3>1, <3>2
    <3>4. QED
      BY <3>2, <3>3
  <2>2. QED
    BY <2>1 DEF FlagHasRequest
<1>5. QED
  BY <1>1, <1>2, <1>3, <1>4 DEF CallInv

LEMMA NodeStepInv ==
    ASSUME DataInv, CallInv, NEW n \in Nodes, NodeStep(n)
    PROVE  DataInv' /\ CallInv'
<1>1. CASE SendTx(n)
  BY <1>1, SendTxData, NetworkStutters DEF SendTx
<1>2. CASE receive_tx(n)
  BY <1>2, ReceiveTxData, NetworkStutters DEF receive_tx
<1>3. CASE MineBlock(n)
  BY <1>3, MineBlockData, NetworkStutters DEF MineBlock
<1>4. CASE ForeignMessage(n)
  <2>1. CallInv'
    BY <1>4, GossipAssumption DEF ForeignMessage, CallInv, FlagHasRequest
  <2>2. QED
    BY <1>4, <2>1, ForeignMessageData
<1>5. CASE receive_block(n)
  BY <1>5, ReceiveBlockData, NetworkStutters DEF receive_block
<1>6. CASE Restart(n)
  BY <1>6, OtherData, RestartInv
<1>7. ASSUME NEW m \in Nodes, SyncChain(n, m)
      PROVE  DataInv' /\ CallInv'
  BY <1>7, OtherData, NetworkStutters DEF SyncChain
<1>8. ASSUME NEW m \in Nodes, Connect(n, m) \/ Disconnect(n, m)
      PROVE  DataInv' /\ CallInv'
  BY <1>8, OtherData, ConnectionsInv
<1>9. QED
  BY <1>1, <1>2, <1>3, <1>4, <1>5, <1>6, <1>7, <1>8 DEF NodeStep

LEMMA NextInv == Inv /\ [Next]_vars => Inv'
<1> SUFFICES ASSUME DataInv, CallInv, [Next]_vars
             PROVE  DataInv' /\ CallInv'
  BY DEF Inv
<1>1. ASSUME NEW n \in Nodes, NodeStep(n)
      PROVE  DataInv' /\ CallInv'
  BY <1>1, NodeStepInv
<1>2. ASSUME NEW n \in Nodes, NEW m \in Nodes, NEW r \in Slots,
             request_mempool(n, m, r)
      PROVE  DataInv' /\ CallInv'
  BY <1>2, RequestMempoolInv
<1>3. ASSUME NEW r \in Slots, RequestStep(r)
      PROVE  DataInv' /\ CallInv'
  BY <1>3, ServeMempoolInv, ForeignAnswerInv, ReadMempoolInv, RequestFailsInv, FinishRequestInv
     DEF RequestStep
<1>4. CASE UNCHANGED vars
  BY <1>4 DEF vars, DataInv, CallInv, FlagHasRequest
<1>5. QED
  BY <1>1, <1>2, <1>3, <1>4 DEF Next

LEMMA Invariance == Spec => []Inv
BY InitInv, NextInv, PTL DEF Spec

-----------------------------------------------------------------------------
(* An answer about a mempool *)

LEMMA RangeAppend ==
    ASSUME NEW S, NEW s \in Seq(S), NEW x \in S
    PROVE  Range(Append(s, x)) = Range(s) \cup {x}
<1> DEFINE n == Len(s)
           longer == Append(s, x)
<1>1. /\ n \in Nat /\ DOMAIN s = 1..n /\ DOMAIN longer = 1..(n + 1)
      /\ longer[n+1] = x
      /\ \A i \in 1..n : longer[i] = s[i]
      /\ 1..(n + 1) = (1..n) \cup {n + 1}
  OBVIOUS
<1> HIDE DEF n, longer
<1>2. ASSUME NEW y
      PROVE  y \in Range(longer) <=> y \in Range(s) \/ y = x
  BY <1>1, Zenon DEF Range
<1>3. QED
  BY <1>2 DEF longer

LEMMA LongerInterval ==
    ASSUME NEW a \in Nat, NEW b \in Nat
    PROVE  (a + 1 .. a + b) \cup {a + b + 1} = a + 1 .. a + (b + 1)
<1>1. ASSUME NEW x
      PROVE  x \in (a + 1 .. a + b) \cup {a + b + 1}
               <=> x \in a + 1 .. a + (b + 1)
  OBVIOUS
<1>2. QED
  BY <1>1

\* What the transactions of a sender cost, by their nonces.
Priced(pool, u, cost) ==
    \A i \in 1..Len(pool) :
        pool[i].sender = u => cost[pool[i].nonce] = pool[i].amount + pool[i].fee

\* What count transactions after the one with nonce s cost.
CostFrom(cost, s, count) == SumSeq([k \in 1..count |-> cost[s + k]])

\* In an admissible pool the nonces of a sender count on from the confirmed
\* one, and what is reserved for it is the sum of its costs in that order,
\* wherever between them the others stand.
LEMMA PoolByNonce ==
    ASSUME NEW c, NEW state \in AddrState, NEW pool \in Seq(Tx),
           PoolOK(pool, c, state), NEW u \in Accounts,
           NEW cost \in [Nat -> Int], Priced(pool, u, cost)
    PROVE  \E count \in Nat :
               /\ count = Cardinality(pending_for_sender(pool, u))
               /\ PendingNonces(pool, u)
                    = state[u].nonce + 1 .. state[u].nonce + count
               /\ reserved(pool, u) = CostFrom(cost, state[u].nonce, count)
<1> DEFINE n == Len(pool)
           s == state[u].nonce
           Costs(k) == [i \in 1..k |-> cost[s + i]]
           Before(i) == SubSeq(pool, 1, i)
           Count(q) == Cardinality(pending_for_sender(q, u))
           Counted(q) == /\ Count(q) \in Nat
                         /\ PendingNonces(q, u) = s + 1 .. s + Count(q)
                         /\ reserved(q, u) = SumSeq(Costs(Count(q)))
           P == {i \in 0..n : Counted(Before(i))}
<1>1. n \in Nat /\ s \in Nat
  BY AccountType
<1> HIDE DEF s
<1>2. \A k \in Nat : Costs(k) \in [1..k -> Int]
  BY <1>1
<1>3. 0 \in P
  <2>1. Before(0) = <<>> /\ Len(<<>>) = 0
    BY <1>1
  <2>2. pending_for_sender(<<>>, u) = {}
    BY DEF pending_for_sender
  <2>3. Count(<<>>) = 0 /\ PendingNonces(<<>>, u) = {}
    BY <2>2, FS_EmptySet DEF PendingNonces
  <2>4. s + 1 .. s + 0 = {}
    BY <1>1
  <2>5. reserved(<<>>, u) = SumSeq(Costs(0))
    <3>1. /\ Costs(0) = [i \in 1..0 |-> 0]
          /\ reserved(<<>>, u) = SumSeq([i \in 1..0 |-> 0])
      BY DEF reserved
    <3>2. QED
      BY <3>1
  <2> HIDE DEF Costs, Before, Count
  <2>6. Counted(<<>>)
    <3>1. 0 \in Nat
      OBVIOUS
    <3>2. QED
      BY <2>3, <2>4, <2>5, <3>1, Zenon
  <2> HIDE DEF Counted
  <2>7. 0 \in 0..n
    BY <1>1
  <2>8. QED
    BY <2>1, <2>6, <2>7
<1>4. ASSUME NEW i \in 1..n, i - 1 \in P
      PROVE  i \in P
  <2> DEFINE q == Before(i - 1)
             tx == pool[i]
  <2>1. q \in Seq(Tx) /\ tx \in Tx /\ Before(i) = Append(q, tx)
    BY Prefix
  <2>2. Admissible(tx, q, c, state)
    BY DEF PoolOK
  <2>3. Counted(q)
    BY <1>4
  <2>4. tx.sender = u => cost[tx.nonce] = tx.amount + tx.fee
    BY DEF Priced
  <2>5. i \in 0..n
    BY <1>1
  <2> HIDE DEF q, tx, Before
  <2>6. /\ Count(Append(q, tx)) = Count(q) + (IF tx.sender = u THEN 1 ELSE 0)
        /\ reserved(Append(q, tx), u)
             = reserved(q, u) + (IF tx.sender = u THEN tx.amount + tx.fee ELSE 0)
        /\ PendingNonces(Append(q, tx), u)
             = PendingNonces(q, u) \cup (IF tx.sender = u THEN {tx.nonce} ELSE {})
    BY <2>1, PendingAppend, PendingNoncesAppend
  <2>7. reserved(q, u) \in Int
    BY <2>1, PendingAppend
  <2>8. ASSUME tx.sender # u
        PROVE  Counted(Append(q, tx))
    <3>1. /\ Count(Append(q, tx)) = Count(q)
          /\ reserved(Append(q, tx), u) = reserved(q, u)
          /\ PendingNonces(Append(q, tx), u) = PendingNonces(q, u)
      BY <2>1, <2>8, AdmittedOther
    <3> HIDE DEF Costs, Count
    <3>2. QED
      BY <2>3, <3>1, Zenon
  <2>9. ASSUME tx.sender = u
        PROVE  Counted(Append(q, tx))
    <3>1. PICK k \in Nat : k = Count(q)
      BY <2>3
    <3>2. /\ Count(Append(q, tx)) = k + 1
          /\ reserved(Append(q, tx), u) = SumSeq(Costs(k)) + cost[tx.nonce]
          /\ PendingNonces(Append(q, tx), u) = (s + 1 .. s + k) \cup {tx.nonce}
      BY <2>3, <2>4, <2>6, <2>9, <3>1
    <3>3. tx.nonce = s + k + 1
      BY <2>1, <2>2, <2>9, <3>1, AdmittedOwn DEF s
    <3>4. (s + 1 .. s + k) \cup {s + k + 1} = s + 1 .. s + (k + 1)
      BY <1>1, LongerInterval
    <3>5. SumSeq(Costs(k + 1)) = SumSeq(Costs(k)) + cost[s + (k + 1)]
      <4>1. PICK a, b : a = Costs(k) /\ b = Costs(k + 1)
        OBVIOUS
      <4>2. a \in [1..k -> Int] /\ b \in [1..k+1 -> Int]
        <5>1. k + 1 \in Nat
          OBVIOUS
        <5>2. QED
          BY <1>2, <4>1, <5>1
      <4>3. (\A j \in 1..k : b[j] = a[j]) /\ b[k+1] = cost[s + (k + 1)]
        BY <4>1
      <4>4. SumSeq(b) = SumSeq(a) + b[k+1]
        BY <4>2, <4>3, SumSeqAppend
      <4> HIDE DEF Costs
      <4>5. QED
        BY <4>1, <4>3, <4>4
    <3>6. s + k + 1 = s + (k + 1) /\ k + 1 \in Nat
      BY <1>1
    <3> HIDE DEF Costs, Count
    <3>7. QED
      BY <3>2, <3>3, <3>4, <3>5, <3>6
  <2> HIDE DEF Counted
  <2>10. Counted(Before(i))
    BY <2>1, <2>8, <2>9, Zenon
  <2>11. QED
    BY <2>5, <2>10
<1>5. P = 0..n
  <2> HIDE DEF P
  <2>1. P \in SUBSET (0..n)
    BY DEF P
  <2>2. QED
    BY <1>1, <1>3, <1>4, <2>1, Induction
<1>6. Before(n) = pool /\ n \in 0..n
  BY <1>1
<1>7. Counted(pool)
  BY <1>5, <1>6
<1>8. QED
  BY <1>7, Zenon DEF s, CostFrom

\* In an admissible pool a nonce of a sender, and an id, is one transaction's.
LEMMA PoolDistinct ==
    ASSUME NEW c, NEW state \in AddrState, NEW pool \in Seq(Tx),
           PoolOK(pool, c, state),
           NEW j \in 1..Len(pool), NEW k \in 1..Len(pool), j # k
    PROVE  /\ tx_id(pool[j]) # tx_id(pool[k])
           /\ pool[j].sender = pool[k].sender => pool[j].nonce # pool[k].nonce
<1>1. ASSUME NEW a \in 1..Len(pool), NEW b \in 1..Len(pool), a < b
      PROVE  /\ tx_id(pool[a]) # tx_id(pool[b])
             /\ pool[a].sender = pool[b].sender => pool[a].nonce # pool[b].nonce
  <2>1. tx_id(pool[b]) \notin PendingIds(SubSeq(pool, 1, b - 1))
    BY DEF PoolOK, Admissible
  <2>2. tx_id(pool[a]) \in PendingIds(SubSeq(pool, 1, b - 1))
    <3>1. /\ a \in 1..Len(SubSeq(pool, 1, b - 1))
          /\ SubSeq(pool, 1, b - 1)[a] = pool[a]
      BY <1>1
    <3>2. QED
      BY <3>1, Zenon DEF PendingIds
  <2>3. pool[a].sender = pool[b].sender => pool[a].nonce < pool[b].nonce
    BY <1>1, PoolOrder
  <2>4. pool[a].nonce \in Int
    <3>1. pool[a] \in Tx
      OBVIOUS
    <3>2. QED
      BY <3>1 DEF Tx
  <2>5. QED
    BY <2>1, <2>2, <2>3, <2>4
<1>2. j < k \/ k < j
  OBVIOUS
<1>3. QED
  BY <1>1, <1>2

\* In an admissible pool the nonce of a sender's transaction tells its cost.
LEMMA CostByNonce ==
    ASSUME NEW c, NEW state \in AddrState, NEW pool \in Seq(Tx),
           PoolOK(pool, c, state), NEW u
    PROVE  \E cost \in [Nat -> Int] : Priced(pool, u, cost)
<1> DEFINE Own(x) == {i \in 1..Len(pool) : pool[i].sender = u /\ pool[i].nonce = x}
           Cost(i) == pool[i].amount + pool[i].fee
           cost == [x \in Nat |-> IF Own(x) = {} THEN 0
                                  ELSE Cost(CHOOSE i \in Own(x) : TRUE)]
<1>1. ASSUME NEW i \in 1..Len(pool)
      PROVE  pool[i].nonce \in Nat /\ Cost(i) \in Int
  <2>1. pool[i] \in Tx /\ Admissible(pool[i], SubSeq(pool, 1, i - 1), c, state)
    BY DEF PoolOK
  <2>2. pool[i].nonce >= 0
    BY <2>1, AdmissibleFacts
  <2>3. QED
    BY <2>1, <2>2 DEF Tx
<1> HIDE DEF Cost
<1>2. ASSUME NEW x \in Nat, Own(x) # {}
      PROVE  (CHOOSE i \in Own(x) : TRUE) \in Own(x)
  BY <1>2
<1>3. cost \in [Nat -> Int]
  BY <1>1, <1>2
<1>4. ASSUME NEW i \in 1..Len(pool), pool[i].sender = u
      PROVE  cost[pool[i].nonce] = Cost(i)
  <2> DEFINE x == pool[i].nonce
             j == CHOOSE k \in Own(x) : TRUE
  <2>1. x \in Nat /\ i \in Own(x)
    BY <1>1, <1>4
  <2>2. j \in Own(x)
    BY <1>2, <2>1
  <2>3. j = i
    <3> HIDE DEF j
    <3>1. j \in 1..Len(pool) /\ pool[j].sender = pool[i].sender
          /\ pool[j].nonce = pool[i].nonce
      BY <1>4, <2>2
    <3>2. QED
      BY <3>1, PoolDistinct
  <2>4. cost[x] = Cost(j)
    BY <2>1
  <2>5. QED
    BY <2>3, <2>4
<1>5. QED
  BY <1>3, <1>4 DEF Cost, Priced

\* An answer is the beginning of a pool.
LEMMA PrefixOK ==
    ASSUME NEW pool \in Seq(Tx), NEW c, NEW state, PoolOK(pool, c, state),
           NEW n \in 0..Len(pool)
    PROVE  PoolOK(SubSeq(pool, 1, n), c, state)
<1> DEFINE begin == SubSeq(pool, 1, n)
<1>1. Len(begin) = n /\ n \in Nat
  OBVIOUS
<1>2. ASSUME NEW i \in 1..n
      PROVE  /\ i \in 1..Len(pool) /\ begin[i] = pool[i]
             /\ SubSeq(begin, 1, i - 1) = SubSeq(pool, 1, i - 1)
  OBVIOUS
<1> HIDE DEF begin
<1>3. QED
  BY <1>1, <1>2 DEF PoolOK, begin

LEMMA ConsecutiveNonces ==
    ASSUME NEW c, NEW state \in AddrState, NEW pool \in Seq(Tx),
           PoolOK(pool, c, state), NEW u \in Accounts
    PROVE  \E count \in Nat :
               PendingNonces(pool, u)
                 = state[u].nonce + 1 .. state[u].nonce + count
<1>1. PICK cost \in [Nat -> Int] : Priced(pool, u, cost)
  BY CostByNonce
<1>2. QED
  BY <1>1, PoolByNonce

\* What a reader, with nothing pending but some of the answer, has of a sender
\* when it comes to the next transaction of the answer: those before it.  One
\* that comes after it in the answer has a higher nonce, so that this one
\* would be pending, too.
LEMMA SameBefore ==
    ASSUME NEW c, NEW state \in AddrState,
           NEW reader \in Seq(Tx), PoolOK(reader, c, state),
           NEW answer \in Seq(Tx), PoolOK(answer, c, state),
           Range(reader) \subseteq Range(answer),
           NEW i \in 1..Len(answer), answer[i] \notin Range(reader),
           NEW p \in Range(reader), p.sender = answer[i].sender
    PROVE  p \in Range(SubSeq(answer, 1, i - 1))
<1> DEFINE tx == answer[i]
           u == tx.sender
<1>1. /\ DOMAIN reader = 1..Len(reader) /\ DOMAIN answer = 1..Len(answer)
      /\ \A m \in 1..Len(reader) : reader[m] \in Tx
      /\ \A m \in 1..Len(answer) : answer[m] \in Tx
  OBVIOUS
<1>2. PICK k \in 1..Len(answer) : answer[k] = p
  BY <1>1 DEF Range
<1>3. k # i
  BY <1>2
<1>4. ASSUME k > i
      PROVE  FALSE
  <2>1. tx.nonce < p.nonce
    BY <1>2, <1>4, PoolOrder
  <2>2. tx \in Tx /\ p \in Tx /\ u \in Accounts
    BY <1>1, <1>2 DEF Tx
  <2>3. tx.nonce \in Int /\ p.nonce \in Int
    BY <2>2 DEF Tx
  <2>4. state[u].nonce \in Nat /\ tx.nonce >= state[u].nonce + 1
    <3>1. SubSeq(answer, 1, i - 1) \in Seq(Tx)
      BY Prefix
    <3>2. Admissible(tx, SubSeq(answer, 1, i - 1), c, state)
      BY DEF PoolOK
    <3>3. PICK before \in Seq(Tx) : Admissible(tx, before, c, state)
      BY <3>1, <3>2
    <3>4. /\ tx.nonce = state[u].nonce
                          + Cardinality(pending_for_sender(before, u)) + 1
          /\ Cardinality(pending_for_sender(before, u)) \in Nat
      BY <2>2, <3>3, AdmittedOwn
    <3>5. state[u].nonce \in Nat
      BY <2>2, AccountType
    <3> HIDE DEF u, tx
    <3>6. QED
      BY <3>4, <3>5
  <2>5. PICK last \in Int : PendingNonces(reader, u) = state[u].nonce + 1 .. last
    <3>1. PICK count \in Nat :
              PendingNonces(reader, u)
                = state[u].nonce + 1 .. state[u].nonce + count
      BY <2>2, ConsecutiveNonces
    <3>2. state[u].nonce + count \in Int
      BY <2>4
    <3>3. QED
      BY <3>1, <3>2
  <2>6. p.nonce \in PendingNonces(reader, u)
    BY <1>1 DEF PendingNonces, pending_for_sender, Range
  <2>7. tx.nonce \in PendingNonces(reader, u)
    <3> HIDE DEF u, tx
    <3>1. QED
      BY <2>1, <2>3, <2>4, <2>5, <2>6
  <2>8. PICK m \in 1..Len(reader) : reader[m].sender = u /\ reader[m].nonce = tx.nonce
    BY <2>7 DEF PendingNonces, pending_for_sender
  <2>9. PICK l \in 1..Len(answer) : answer[l] = reader[m]
    <3>1. reader[m] \in Range(reader)
      BY <1>1 DEF Range
    <3>2. QED
      BY <1>1, <3>1 DEF Range
  <2>10. l = i
    BY <2>8, <2>9, PoolDistinct
  <2>11. QED
    BY <1>1, <2>9, <2>10 DEF Range
<1>5. k < i
  BY <1>3, <1>4
<1>6. /\ k \in DOMAIN SubSeq(answer, 1, i - 1)
      /\ SubSeq(answer, 1, i - 1)[k] = answer[k]
  BY <1>5
<1>7. QED
  BY <1>2, <1>6, Zenon DEF Range

LEMMA PrefixRange ==
    ASSUME NEW S, NEW s \in Seq(S), NEW i \in 1..Len(s)
    PROVE  /\ \A p : p \in Range(SubSeq(s, 1, i - 1))
                       <=> \E k \in 1..(i - 1) : p = s[k]
           /\ Range(SubSeq(s, 1, i)) = Range(SubSeq(s, 1, i - 1)) \cup {s[i]}
           /\ Range(SubSeq(s, 1, i - 1)) \subseteq Range(s)
<1>1. /\ SubSeq(s, 1, i - 1) \in Seq(S) /\ s[i] \in S
      /\ SubSeq(s, 1, i) = Append(SubSeq(s, 1, i - 1), s[i])
  BY Prefix
<1>2. /\ DOMAIN SubSeq(s, 1, i - 1) = 1..(i - 1)
      /\ \A k \in 1..(i - 1) : SubSeq(s, 1, i - 1)[k] = s[k]
      /\ \A k \in 1..(i - 1) : k \in DOMAIN s
  OBVIOUS
<1>3. \A p : p \in Range(SubSeq(s, 1, i - 1)) <=> \E k \in 1..(i - 1) : p = s[k]
  BY <1>2, Zenon DEF Range
<1>4. Range(SubSeq(s, 1, i - 1)) \subseteq Range(s)
  BY <1>2, <1>3, Zenon DEF Range
<1>5. Range(SubSeq(s, 1, i)) = Range(SubSeq(s, 1, i - 1)) \cup {s[i]}
  <2>1. PICK t \in Seq(S), x \in S : t = SubSeq(s, 1, i - 1) /\ x = s[i]
    BY <1>1
  <2>2. Range(Append(t, x)) = Range(t) \cup {x}
    BY RangeAppend
  <2>3. QED
    BY <1>1, <2>1, <2>2
<1>6. QED
  BY <1>3, <1>4, <1>5

\* The next transaction of the answer, unless the reader has it, is admitted:
\* as many of its sender's transactions are pending, and cost as much, as
\* before it in the answer.
LEMMA NextTaken ==
    ASSUME NEW c, NEW state \in AddrState,
           NEW reader \in Seq(Tx), PoolOK(reader, c, state),
           NEW answer \in Seq(Tx), PoolOK(answer, c, state),
           Range(reader) \subseteq Range(answer),
           NEW i \in 1..Len(answer), answer[i] \notin Range(reader),
           NEW pool \in Seq(Tx), PoolOK(pool, c, state),
           Range(pool) = Range(reader) \cup Range(SubSeq(answer, 1, i - 1))
    PROVE  Admissible(answer[i], pool, c, state)
<1> DEFINE tx == answer[i]
           u == tx.sender
           before == SubSeq(answer, 1, i - 1)
<1>1. /\ before \in Seq(Tx) /\ tx \in Tx
      /\ Admissible(tx, before, c, state)
      /\ u \in Accounts
  <2>1. before \in Seq(Tx) /\ tx \in Tx
    BY Prefix
  <2>2. QED
    BY <2>1 DEF PoolOK, Tx
<1>2. PoolOK(before, c, state)
  BY PrefixOK
<1>3. /\ \A p : p \in Range(before) <=> \E k \in 1..(i - 1) : p = answer[k]
      /\ Range(before) \subseteq Range(answer)
  BY PrefixRange
<1>4. \A p \in Range(pool) : p.sender = u => p \in Range(before)
  BY SameBefore
<1>5. Range(before) \subseteq Range(pool) /\ Range(pool) \subseteq Range(answer)
  BY <1>3
<1>6. /\ DOMAIN pool = 1..Len(pool) /\ DOMAIN answer = 1..Len(answer)
      /\ DOMAIN before = 1..Len(before)
  BY <1>1
<1>7. tx \notin Range(pool)
  <2>1. tx \notin Range(before)
    <3>1. ASSUME NEW k \in 1..(i - 1), tx = answer[k]
          PROVE  FALSE
      <4>1. k \in 1..Len(answer) /\ k # i
        OBVIOUS
      <4>2. QED
        BY <3>1, <4>1, PoolDistinct
    <3>2. QED
      BY <1>3, <3>1
  <2>2. QED
    BY <2>1
<1>8. tx_id(tx) \notin PendingIds(pool)
  <2>1. ASSUME NEW m \in 1..Len(pool), tx_id(pool[m]) = tx_id(tx)
        PROVE  FALSE
    <3>1. pool[m] \in Range(pool)
      BY <1>6 DEF Range
    <3>2. PICK k \in 1..Len(answer) : answer[k] = pool[m]
      BY <1>5, <1>6, <3>1 DEF Range
    <3>3. k # i
      BY <1>7, <3>1, <3>2
    <3>4. QED
      BY <2>1, <3>2, <3>3, PoolDistinct
  <2>2. QED
    BY <2>1 DEF PendingIds
<1>9. PICK cost \in [Nat -> Int] : Priced(answer, u, cost)
  BY CostByNonce
<1> HIDE DEF before, tx
<1>10. Priced(pool, u, cost) /\ Priced(before, u, cost)
  <2>1. ASSUME NEW q \in Seq(Tx), Range(q) \subseteq Range(answer)
        PROVE  Priced(q, u, cost)
    <3>1. DOMAIN q = 1..Len(q)
      OBVIOUS
    <3>2. ASSUME NEW m \in 1..Len(q), q[m].sender = u
          PROVE  cost[q[m].nonce] = q[m].amount + q[m].fee
      <4>1. PICK k \in 1..Len(answer) : answer[k] = q[m]
        BY <1>6, <2>1, <3>1 DEF Range
      <4>2. QED
        BY <1>9, <3>2, <4>1 DEF Priced
    <3>3. QED
      BY <3>2 DEF Priced
  <2>2. QED
    BY <1>1, <1>3, <1>5, <2>1
<1> HIDE DEF u
<1>11. ASSUME NEW q \in Seq(Tx), PoolOK(q, c, state), Priced(q, u, cost)
       PROVE  \E k \in Nat :
                  /\ k = Cardinality(pending_for_sender(q, u))
                  /\ PendingNonces(q, u) = state[u].nonce + 1 .. state[u].nonce + k
                  /\ reserved(q, u) = CostFrom(cost, state[u].nonce, k)
  <2>1. u \in Accounts
    BY <1>1
  <2>2. QED
    BY <1>11, <2>1, PoolByNonce
<1>12. PICK a \in Nat : /\ a = Cardinality(pending_for_sender(pool, u))
                        /\ PendingNonces(pool, u)
                             = state[u].nonce + 1 .. state[u].nonce + a
                        /\ reserved(pool, u) = CostFrom(cost, state[u].nonce, a)
  BY <1>10, <1>11
<1>13. PICK b \in Nat : /\ b = Cardinality(pending_for_sender(before, u))
                        /\ PendingNonces(before, u)
                             = state[u].nonce + 1 .. state[u].nonce + b
                        /\ reserved(before, u) = CostFrom(cost, state[u].nonce, b)
  BY <1>1, <1>2, <1>10, <1>11
<1>14. PendingNonces(pool, u) = PendingNonces(before, u)
  <2>1. ASSUME NEW q \in Seq(Tx), NEW x
        PROVE  x \in PendingNonces(q, u)
                 <=> \E p \in Range(q) : p.sender = u /\ p.nonce = x
    <3>1. DOMAIN q = 1..Len(q)
      OBVIOUS
    <3>2. QED
      BY <3>1 DEF PendingNonces, pending_for_sender, Range
  <2>2. ASSUME NEW x
        PROVE  x \in PendingNonces(pool, u) <=> x \in PendingNonces(before, u)
    BY <1>1, <1>4, <1>5, <2>1, Zenon
  <2>3. QED
    BY <2>2
<1>15. a = b
  <2>1. state[u].nonce \in Nat
    BY <1>1, AccountType
  <2>2. ASSUME NEW s \in Nat, NEW x \in Nat, NEW y \in Nat,
               s + 1 .. s + x = s + 1 .. s + y
        PROVE  x <= y
    <3>1. CASE x = 0
      BY <3>1
    <3>2. CASE x # 0
      <4>1. s + x \in s + 1 .. s + x
        BY <3>2
      <4>2. s + x \in s + 1 .. s + y
        BY <2>2, <4>1
      <4>3. QED
        BY <4>2
    <3>3. QED
      BY <3>1, <3>2
  <2>3. a <= b /\ b <= a
    BY <1>12, <1>13, <1>14, <2>1, <2>2
  <2>4. QED
    BY <2>3
<1>16. reserved(pool, u) = reserved(before, u)
  BY <1>12, <1>13, <1>15
<1>17. QED
  BY <1>1, <1>8, <1>12, <1>13, <1>14, <1>15, <1>16
     DEF Admissible, PendingNonces, u, tx

\* An answer that holds all the reader has pending is taken whole.
LEMMA AnswerTaken ==
    ASSUME NEW c, NEW state \in AddrState,
           NEW reader \in Seq(Tx), PoolOK(reader, c, state),
           NEW answer \in Seq(Tx), PoolOK(answer, c, state),
           Range(reader) \subseteq Range(answer),
           NEW pools, Offers(pools, reader, answer, c, state)
    PROVE  Range(pools[Len(answer)]) = Range(answer)
<1> DEFINE n == Len(answer)
           Taken(i) == SubSeq(answer, 1, i)
           Holds(i) == /\ PoolOK(pools[i], c, state)
                       /\ Range(pools[i]) = Range(reader) \cup Range(Taken(i))
           P == {i \in 0..n : Holds(i)}
<1>1. n \in Nat /\ Taken(n) = answer
  OBVIOUS
<1>2. /\ pools \in [0..n -> Seq(Tx)] /\ pools[0] = reader
      /\ \A i \in 1..n :
             pools[i] = IF Admissible(answer[i], pools[i-1], c, state)
                        THEN Append(pools[i-1], answer[i]) ELSE pools[i-1]
  <2>1. \A i \in 1..n : /\ DeserializableTx(answer[i])
                        /\ deserialize_tx(answer[i]) = answer[i]
    BY SerializeTx
  <2>2. QED
    BY <2>1 DEF Offers, Admitted
<1>3. 0 \in P
  <2>1. Taken(0) = <<>>
    BY <1>1
  <2>2. Range(<<>>) = {}
    BY DEF Range
  <2> HIDE DEF Taken
  <2>3. Holds(0)
    BY <1>2, <2>1, <2>2
  <2> HIDE DEF Holds
  <2>4. QED
    BY <1>1, <2>3
<1>4. ASSUME NEW i \in 1..n, i - 1 \in P
      PROVE  i \in P
  <2> DEFINE pool == pools[i-1]
             tx == answer[i]
  <2>1. pool \in Seq(Tx) /\ tx \in Tx /\ i \in 0..n
    BY <1>1, <1>2
  <2>2. /\ PoolOK(pool, c, state)
        /\ Range(pool) = Range(reader) \cup Range(Taken(i-1))
    BY <1>4
  <2>3. pools[i] = IF Admissible(tx, pool, c, state)
                   THEN Append(pool, tx) ELSE pool
    BY <1>2
  <2>4. Range(Taken(i)) = Range(Taken(i-1)) \cup {tx}
    BY PrefixRange
  <2>5. tx \in Range(reader) \/ Admissible(tx, pool, c, state)
    BY <2>1, <2>2, NextTaken
  <2> HIDE DEF pool, tx, Taken
  <2>6. CASE Admissible(tx, pool, c, state)
    <3>1. pools[i] = Append(pool, tx)
      BY <2>3, <2>6
    <3>2. PoolOK(pools[i], c, state)
      BY <2>1, <2>2, <2>6, <3>1, AdmittedOK
    <3>3. Range(pools[i]) = Range(pool) \cup {tx}
      BY <2>1, <3>1, RangeAppend
    <3>4. Holds(i)
      BY <2>2, <2>4, <3>2, <3>3
    <3> HIDE DEF Holds
    <3>5. QED
      BY <2>1, <3>4
  <2>7. CASE ~ Admissible(tx, pool, c, state)
    <3>1. pools[i] = pool /\ tx \in Range(reader)
      BY <2>3, <2>5, <2>7
    <3>2. Holds(i)
      BY <2>2, <2>4, <3>1
    <3> HIDE DEF Holds
    <3>3. QED
      BY <2>1, <3>2
  <2>8. QED
    BY <2>6, <2>7
<1>5. P = 0..n
  <2> HIDE DEF P
  <2>1. P \in SUBSET (0..n)
    BY DEF P
  <2>2. QED
    BY <1>1, <1>3, <1>4, <2>1, Induction
<1>6. n \in P
  BY <1>1, <1>5
<1>7. Range(pools[n]) = Range(reader) \cup Range(answer)
  BY <1>1, <1>6
<1>8. QED
  BY <1>7

-----------------------------------------------------------------------------
(* Pools and answers *)

\* Every pool is admissible in its order, on its node's chain, and every
\* answer of this version on the chain it was given on.
AnswerOK(answer, c) == answer \in Seq(Tx) /\ PoolOK(answer, c, StateOf(c))

PoolsOK   == \A n \in Nodes : PoolOK(tx_pool[n], chain[n], StateOf(chain[n]))
AnswersOK == \A r \in Slots :
                 request[r].pc = "answered" /\ request[r].basis # <<>>
                   => AnswerOK(request[r].transactions, request[r].basis)

LEMMA EmptyOK ==
    ASSUME NEW c, NEW state
    PROVE  PoolOK(<<>>, c, state)
BY DEF PoolOK

LEMMA OfferedOK ==
    ASSUME DataInv, PoolsOK, NEW n \in Nodes, NEW list \in Seq(SentTx)
    PROVE  PoolOK(Offered(n, list), chain[n], StateOf(chain[n]))
<1> DEFINE c == chain[n]
           state == StateOf(c)
           k == Len(list)
<1>1. PICK pools : /\ Offers(pools, tx_pool[n], list, c, state)
                    /\ Offered(n, list) = pools[k]
  BY OfferedPools
<1>2. /\ pools \in [0..k -> Seq(Tx)] /\ pools[0] = tx_pool[n]
      /\ \A i \in 1..k :
             pools[i] = IF Admitted(list[i], pools[i-1], c, state)
                        THEN Append(pools[i-1], deserialize_tx(list[i])) ELSE pools[i-1]
  BY <1>1 DEF Offers
<1> DEFINE P == {i \in 0..k : PoolOK(pools[i], c, state)}
<1>3. k \in Nat /\ \A i \in 1..k : list[i] \in SentTx
  OBVIOUS
<1>4. PoolOK(tx_pool[n], c, state)
  BY DEF PoolsOK
<1> HIDE DEF c, state, k
<1>5. 0 \in P
  BY <1>2, <1>3, <1>4
<1>6. ASSUME NEW i \in 1..k, i - 1 \in P
      PROVE  i \in P
  <2>1. /\ pools[i-1] \in Seq(Tx) /\ PoolOK(pools[i-1], c, state)
        /\ i \in 0..k
    BY <1>2, <1>3, <1>6
  <2>2. CASE Admitted(list[i], pools[i-1], c, state)
    <3>1. PoolOK(Append(pools[i-1], deserialize_tx(list[i])), c, state)
      <4>1. /\ deserialize_tx(list[i]) \in Tx
            /\ Admissible(deserialize_tx(list[i]), pools[i-1], c, state)
        BY <1>3, <2>2, SentType DEF Admitted
      <4>2. QED
        BY <2>1, <4>1, AdmittedOK
    <3>2. pools[i] = Append(pools[i-1], deserialize_tx(list[i]))
      BY <1>2, <2>2
    <3>3. QED
      BY <2>1, <3>1, <3>2
  <2>3. CASE ~ Admitted(list[i], pools[i-1], c, state)
    <3>1. pools[i] = pools[i-1]
      BY <1>2, <2>3
    <3>2. QED
      BY <2>1, <3>1
  <2>4. QED
    BY <2>2, <2>3
<1>7. P = 0..k
  <2> HIDE DEF P
  <2>1. P \in SUBSET (0..k)
    BY DEF P
  <2>2. QED
    BY <1>3, <1>5, <1>6, <2>1, Induction
<1>8. k \in 0..k
  BY <1>3
<1>9. PoolOK(pools[k], c, state)
  BY <1>7, <1>8
<1>10. QED
  BY <1>1, <1>9 DEF c, state

\* A step gives one node another pool, or another chain.
LEMMA OnePool ==
    ASSUME DataInv, PoolsOK, NEW n \in Nodes, NEW pool, NEW c,
           tx_pool' = [tx_pool EXCEPT ![n] = pool],
           chain' = [chain EXCEPT ![n] = c],
           PoolOK(pool, c, StateOf(c))
    PROVE  PoolsOK'
<1>1. ASSUME NEW m \in Nodes
      PROVE  PoolOK(tx_pool'[m], chain'[m], StateOf(chain'[m]))
  <2>1. CASE m = n
    BY <2>1 DEF DataInv
  <2>2. CASE m # n
    <3>1. tx_pool'[m] = tx_pool[m] /\ chain'[m] = chain[m]
      BY <2>2 DEF DataInv
    <3>2. QED
      BY <3>1 DEF PoolsOK
  <2>3. QED
    BY <2>1, <2>2
<1>2. QED
  BY <1>1 DEF PoolsOK

LEMMA SamePools ==
    ASSUME PoolsOK, UNCHANGED <<chain, tx_pool>>
    PROVE  PoolsOK'
BY DEF PoolsOK

\* A step gives one node another pool.
LEMMA OnlyPool ==
    ASSUME DataInv, PoolsOK, NEW n \in Nodes, NEW pool,
           tx_pool' = [tx_pool EXCEPT ![n] = pool], chain' = chain,
           PoolOK(pool, chain[n], StateOf(chain[n]))
    PROVE  PoolsOK'
<1>1. chain' = [chain EXCEPT ![n] = chain[n]]
  BY DEF DataInv
<1>2. QED
  BY <1>1, OnePool

LEMMA AdoptOK ==
    ASSUME DataInv, PoolsOK, NEW n \in Nodes, NEW c, Adopt(n, c)
    PROVE  PoolsOK'
<1> DEFINE pool == revalidate_pending_transactions(tx_pool[n], c, StateOf(c))
<1>1. tx_pool[n] \in Seq(Tx)
  BY DEF DataInv
<1>2. PoolOK(pool, c, StateOf(c))
  BY <1>1, RevalidatedOK
<1>3. /\ tx_pool' = [tx_pool EXCEPT ![n] = pool]
      /\ chain' = [chain EXCEPT ![n] = c]
  BY DEF Adopt
<1> HIDE DEF pool
<1>4. QED
  BY <1>2, <1>3, OnePool

LEMMA NodeStepOK ==
    ASSUME DataInv, PoolsOK, NEW n \in Nodes, NodeStep(n)
    PROVE  PoolsOK'
<1>1. CASE SendTx(n)
  <2>1. PICK tx \in Requests :
            /\ Admissible(tx, tx_pool[n], chain[n], StateOf(chain[n]))
            /\ tx_pool' = [tx_pool EXCEPT ![n] = Append(@, tx)]
            /\ chain' = chain
    BY <1>1 DEF SendTx
  <2>2. tx \in Tx /\ tx_pool[n] \in Seq(Tx)
    BY GossipAssumption DEF DataInv
  <2>3. PoolOK(Append(tx_pool[n], tx), chain[n], StateOf(chain[n]))
    BY <2>1, <2>2, AdmittedOK DEF PoolsOK
  <2>4. tx_pool' = [tx_pool EXCEPT ![n] = Append(tx_pool[n], tx)]
    BY <2>1
  <2>5. QED
    BY <2>1, <2>3, <2>4, OnlyPool
<1>2. CASE receive_tx(n)
  <2>1. PICK msg \in gossip :
            /\ msg.to = n /\ msg.topic = "transactions"
            /\ tx_pool' = [tx_pool EXCEPT ![n] = Offered(n, << msg.data >>)]
            /\ chain' = chain
    BY <1>2 DEF receive_tx
  <2>2. << msg.data >> \in Seq(SentTx)
    <3>1. msg.data \in SentTx
      BY <2>1 DEF DataInv, MessageOK
    <3>2. QED
      BY <3>1
  <2>3. ASSUME NEW list \in Seq(SentTx)
        PROVE  PoolOK(Offered(n, list), chain[n], StateOf(chain[n]))
    BY OfferedOK
  <2>4. PoolOK(Offered(n, << msg.data >>), chain[n], StateOf(chain[n]))
    BY <2>2, <2>3
  <2>5. QED
    BY <2>1, <2>4, OnlyPool
<1>3. CASE MineBlock(n)
  <2>1. PICK b : /\ chain' = [chain EXCEPT ![n] = Append(chain[n], b)]
                 /\ tx_pool' = [tx_pool EXCEPT ![n] = <<>>]
    BY <1>3 DEF MineBlock
  <2>2. QED
    BY <2>1, EmptyOK, OnePool
<1>4. CASE ForeignMessage(n)
  BY <1>4, SamePools DEF ForeignMessage
<1>5. CASE receive_block(n)
  <2>1. \/ \E b : Adopt(n, Append(chain[n], b))
        \/ UNCHANGED <<chain, tx_pool>>
    BY <1>5 DEF receive_block
  <2>2. QED
    BY <2>1, AdoptOK, SamePools
<1>6. CASE Restart(n)
  BY <1>6, EmptyOK, OnlyPool DEF Restart
<1>7. ASSUME NEW m \in Nodes, SyncChain(n, m)
      PROVE  PoolsOK'
  BY <1>7, AdoptOK DEF SyncChain
<1>8. ASSUME NEW m \in Nodes, Connect(n, m) \/ Disconnect(n, m)
      PROVE  PoolsOK'
  BY <1>8, SamePools DEF Connect, Disconnect
<1>9. QED
  BY <1>1, <1>2, <1>3, <1>4, <1>5, <1>6, <1>7, <1>8 DEF NodeStep

\* The call r goes on as another, or ends.
LEMMA OneAnswer ==
    ASSUME CallInv, AnswersOK, NEW r \in Slots, NEW q,
           request' = [request EXCEPT ![r] = q],
           q.pc = "answered" /\ q.basis # <<>>
             => AnswerOK(q.transactions, q.basis)
    PROVE  AnswersOK'
<1>1. ASSUME NEW s \in Slots,
             request'[s].pc = "answered", request'[s].basis # <<>>
      PROVE  AnswerOK(request'[s].transactions, request'[s].basis)
  <2>1. CASE s = r
    <3>1. request'[s] = q
      BY <2>1 DEF CallInv
    <3>2. QED
      BY <1>1, <3>1
  <2>2. CASE s # r
    <3>1. request'[s] = request[s]
      BY <2>2 DEF CallInv
    <3>2. QED
      BY <1>1, <3>1 DEF AnswersOK
  <2>3. QED
    BY <2>1, <2>2
<1>2. QED
  BY <1>1 DEF AnswersOK

LEMMA RequestStepOK ==
    ASSUME DataInv, CallInv, PoolsOK, AnswersOK,
           NEW r \in Slots, RequestStep(r)
    PROVE  PoolsOK' /\ AnswersOK'
<1>1. CASE ServeMempool(r)
  <2> DEFINE old == request[r]
             answer == Shared(tx_pool[old.peer])
             q == [old EXCEPT !.pc = "answered", !.transactions = answer,
                              !.basis = chain[old.peer]]
  <2>1. /\ old.pc = "dialing"
        /\ request' = [request EXCEPT ![r] = q]
        /\ UNCHANGED <<chain, tx_pool>>
    BY <1>1 DEF ServeMempool, quiet, CallInv
  <2>2. old \in [pc: {"dialing", "answered", "closing", "failed"}, by: Nodes,
                 peer: Nodes, transactions: Seq(SentTx), basis: Seq(Block)]
    <3>1. old \in RequestType /\ old.pc # "none"
      BY <2>1 DEF CallInv
    <3>2. QED
      BY <3>1, CallRecord
  <2> DEFINE peer == old.peer
  <2>3. tx_pool[peer] \in Seq(Tx)
    BY <2>2 DEF DataInv
  <2>4. PoolOK(tx_pool[peer], chain[peer], StateOf(chain[peer]))
    BY <2>2 DEF PoolsOK
  <2>5. PICK k \in 0..Len(tx_pool[peer]) :
            answer = SubSeq(tx_pool[peer], 1, k) /\ answer \in Seq(Tx)
    BY <2>3, SharedPrefix
  <2>6. AnswerOK(answer, chain[peer])
    BY <2>3, <2>4, <2>5, PrefixOK DEF AnswerOK
  <2>7. q.transactions = answer /\ q.basis = chain[peer]
    BY <2>2
  <2> HIDE DEF q, answer, peer, old
  <2>8. AnswersOK'
    BY <2>1, <2>6, <2>7, OneAnswer
  <2>9. QED
    BY <2>1, <2>8, SamePools
<1>2. CASE ReadMempool(r)
  <2> DEFINE n == request[r].by
             q == Call(n, request[r].peer, "closing")
  <2>1. /\ request[r].pc = "answered"
        /\ tx_pool' = [tx_pool EXCEPT ![n] = Offered(n, request[r].transactions)]
        /\ request' = [request EXCEPT ![r] = q]
        /\ chain' = chain
    BY <1>2 DEF ReadMempool, quiet
  <2>2. n \in Nodes /\ request[r].transactions \in Seq(SentTx)
    <3>1. request[r] \in RequestType /\ request[r].pc # "none"
      BY <2>1 DEF CallInv
    <3>2. QED
      BY <3>1, CallRecord
  <2>3. q.pc # "answered"
    BY DEF Call
  <2> HIDE DEF q, n
  <2>4. PoolsOK'
    BY <2>1, <2>2, OfferedOK, OnlyPool
  <2>5. AnswersOK'
    BY <2>1, <2>3, OneAnswer
  <2>6. QED
    BY <2>4, <2>5
<1>3. CASE RequestFails(r) \/ FinishRequest(r)
  <2>1. /\ UNCHANGED <<chain, tx_pool>>
        /\ \/ request' = [request EXCEPT ![r] = NoRequest]
           \/ request' = [request EXCEPT
                             ![r] = Call(request[r].by, request[r].peer, "failed")]
    BY <1>3, Zenon DEF RequestFails, FinishRequest, quiet
  <2>3. /\ NoRequest.pc # "answered"
        /\ Call(request[r].by, request[r].peer, "failed").pc # "answered"
    BY DEF NoRequest, Call
  <2>2. QED
    BY <2>1, <2>3, OneAnswer, SamePools
<1>4. CASE ForeignAnswer(r)
  <2>1. PICK answer \in ForeignAnswers :
            /\ request[r].pc = "dialing"
            /\ request' = [request EXCEPT ![r] =
                  [request[r] EXCEPT !.pc = "answered",
                                     !.transactions = answer,
                                     !.basis = <<>>]]
            /\ UNCHANGED <<chain, tx_pool>>
    BY <1>4 DEF ForeignAnswer, quiet, CallInv
  <2> DEFINE q == [request[r] EXCEPT !.pc = "answered",
                                     !.transactions = answer,
                                     !.basis = <<>>]
  <2>2. q.basis = <<>>
    <3>1. request[r] \in [pc: {"dialing", "answered", "closing", "failed"},
                          by: Nodes, peer: Nodes, transactions: Seq(SentTx),
                          basis: Seq(Block)]
      BY <2>1, CallRecord DEF CallInv
    <3>2. QED
      BY <3>1
  <2>3. request' = [request EXCEPT ![r] = q]
    BY <2>1
  <2> HIDE DEF q
  <2>4. QED
    BY <2>1, <2>2, <2>3, OneAnswer, SamePools
<1>5. QED
  BY <1>1, <1>2, <1>3, <1>4 DEF RequestStep

\* No step of a node gives an answer.
LEMMA NodeStepAnswers ==
    ASSUME AnswersOK, NEW n \in Nodes, NodeStep(n)
    PROVE  AnswersOK'
<1>1. CASE Restart(n)
  <2>1. request' = [r \in Slots |->
                       IF request[r] # NoRequest /\ request[r].by = n
                       THEN NoRequest ELSE request[r]]
    BY <1>1 DEF Restart
  <2>2. NoRequest.pc # "answered"
    BY DEF NoRequest
  <2>3. QED
    BY <2>1, <2>2 DEF AnswersOK
<1>2. CASE ~ Restart(n)
  <2>1. request' = request
    BY <1>2 DEF NodeStep, SendTx, receive_tx, MineBlock, ForeignMessage,
                receive_block, SyncChain, Connect, Disconnect, network
  <2>2. QED
    BY <2>1 DEF AnswersOK
<1>3. QED
  BY <1>1, <1>2

LEMMA PoolsNext == Inv /\ PoolsOK /\ AnswersOK /\ [Next]_vars
                     => PoolsOK' /\ AnswersOK'
<1> SUFFICES ASSUME DataInv, CallInv, PoolsOK, AnswersOK, [Next]_vars
             PROVE  PoolsOK' /\ AnswersOK'
  BY DEF Inv
<1>1. ASSUME NEW n \in Nodes, NodeStep(n)
      PROVE  PoolsOK' /\ AnswersOK'
  BY <1>1, NodeStepOK, NodeStepAnswers
<1>2. ASSUME NEW n \in Nodes, NEW m \in Nodes, NEW r \in Slots,
             request_mempool(n, m, r)
      PROVE  PoolsOK' /\ AnswersOK'
  <2>1. /\ request' = [request EXCEPT ![r] = Call(n, m, "dialing")]
        /\ UNCHANGED <<chain, tx_pool>>
    BY <1>2 DEF request_mempool, quiet
  <2>2. Call(n, m, "dialing").pc # "answered"
    BY DEF Call
  <2>3. QED
    BY <2>1, <2>2, OneAnswer, SamePools
<1>3. ASSUME NEW r \in Slots, RequestStep(r)
      PROVE  PoolsOK' /\ AnswersOK'
  BY <1>3, RequestStepOK
<1>4. CASE UNCHANGED vars
  BY <1>4 DEF vars, PoolsOK, AnswersOK
<1>5. QED
  BY <1>1, <1>2, <1>3, <1>4 DEF Next

LEMMA PoolsInvariance == Spec => [](Inv /\ PoolsOK /\ AnswersOK)
<1>1. Init => PoolsOK /\ AnswersOK
  BY EmptyOK DEF Init, PoolsOK, AnswersOK, NoRequest
<1>2. QED
  BY <1>1, Invariance, PoolsNext, PTL DEF Spec

\* A call that was answered and is now closing has read its answer.
LEMMA ClosingHasRead ==
    ASSUME CallInv, [Next]_vars, NEW r \in Slots,
           request[r].pc = "answered", request'[r].pc = "closing"
    PROVE  ReadMempool(r)
<1>1. request'[r] # request[r]
  OBVIOUS
<1>2. ASSUME NEW n \in Nodes, NodeStep(n)
      PROVE  FALSE
  <2>1. CASE Restart(n)
    <3>1. request'[r] \in {NoRequest, request[r]}
      BY <2>1 DEF Restart
    <3>2. QED
      BY <1>1, <3>1 DEF NoRequest
  <2>2. CASE ~ Restart(n)
    BY <1>1, <1>2, <2>2
       DEF NodeStep, SendTx, receive_tx, MineBlock, ForeignMessage,
           receive_block, SyncChain, Connect, Disconnect, network
  <2>3. QED
    BY <2>1, <2>2
<1>3. ASSUME NEW s \in Slots, NEW q, request' = [request EXCEPT ![s] = q]
      PROVE  s = r /\ q = request'[r]
  BY <1>1, <1>3 DEF CallInv
<1>4. ASSUME NEW n \in Nodes, NEW m \in Nodes, NEW s \in Slots,
             request_mempool(n, m, s)
      PROVE  FALSE
  <2>1. request' = [request EXCEPT ![s] = Call(n, m, "dialing")]
    BY <1>4 DEF request_mempool
  <2>2. Call(n, m, "dialing").pc # "closing"
    BY DEF Call
  <2>3. QED
    BY <1>3, <2>1, <2>2
<1>5. ASSUME NEW s \in Slots, RequestStep(s)
      PROVE  ReadMempool(r)
  <2>1. CASE ServeMempool(s) \/ ForeignAnswer(s)
    <3>1. PICK q : /\ request[s].pc = "dialing"
                   /\ request' = [request EXCEPT ![s] = q]
      BY <2>1 DEF ServeMempool, ForeignAnswer, CallInv
    <3>2. QED
      BY <1>3, <3>1
  <2>2. CASE ReadMempool(s)
    <3>1. PICK q : request' = [request EXCEPT ![s] = q]
      BY <2>2 DEF ReadMempool
    <3>2. QED
      BY <1>3, <2>2, <3>1
  <2>3. CASE RequestFails(s) \/ FinishRequest(s)
    <3>1. PICK q : request' = [request EXCEPT ![s] = q] /\ q.pc # "closing"
      BY <2>3 DEF RequestFails, FinishRequest, Call, NoRequest
    <3>2. QED
      BY <1>3, <3>1
  <2>4. QED
    BY <1>5, <2>1, <2>2, <2>3 DEF RequestStep
<1>6. QED
  BY <1>1, <1>2, <1>4, <1>5 DEF Next, vars

-----------------------------------------------------------------------------
(* Theorems *)

\* Every variable keeps its type: whatever transactions of other versions
\* arrive by gossip or in answers, and whatever is no block on the topic of
\* blocks, pools hold transactions with the fields of this version and no
\* other, and chains hold blocks of them (serialization.ts:46, :103).
THEOREM TypeCorrect == Spec => []TypeOK
<1>1. Inv => TypeOK
  BY DEF Inv, DataInv, CallInv, GoodChain, MessageOK, TypeOK
<1>2. QED
  BY Invariance, <1>1, PTL

\* No peer stays in syncing_mempool_peers without a call that will remove it,
\* although disconnects remove peers in the middle of calls (p2p.ts:202).
THEOREM NoPeerBarred == Spec => []FlagHasRequest
<1>1. Inv => FlagHasRequest
  BY DEF Inv, CallInv
<1>2. QED
  BY Invariance, <1>1, PTL

\* A block on its way fits on every node whose tip is its parent.
THEOREM BlocksFit == Spec => []GossipedBlockFits
<1>1. ASSUME Inv, NEW msg \in gossip,
             msg.topic = "blocks", Deserializable(msg.data),
             deserialize_block(msg.data).prev
               = block_hash(get_latest_block(chain[msg.to]))
      PROVE  ValidNext(deserialize_block(msg.data), chain[msg.to])
  <2>1. msg.to \in Nodes /\ GoodChain(chain[msg.to])
    BY <1>1 DEF Inv, DataInv, MessageOK
  <2>2. PICK c : GoodChain(c) /\ ValidNext(deserialize_block(msg.data), c)
    BY <1>1 DEF Inv, DataInv, MessageOK
  <2>3. deserialize_block(msg.data).prev = block_hash(get_latest_block(c))
    BY <2>2 DEF ValidNext, validate_next_block
  <2>4. c = chain[msg.to]
    BY <1>1, <2>1, <2>2, <2>3, HashDeterminesChain
  <2>5. QED
    BY <2>2, <2>4
<1>2. Inv => GossipedBlockFits
  BY <1>1 DEF GossipedBlockFits, ValidNext
<1>3. QED
  BY Invariance, <1>2, PTL

\* An answer given on the chain the reader still has is taken whole, if
\* nothing but some of it is pending at the reader, whatever gossip lost or
\* reordered before (p2p.ts:249): no transaction of the answer depends on one
\* that the limit of an answer cut off.
THEOREM GapsAreHealed == Spec => MempoolHealsGaps
<1>1. ASSUME Inv, PoolsOK, AnswersOK, [Next]_vars, NEW r \in Slots,
             request[r].pc = "answered",
             request'[r].pc = "closing",
             request[r].basis = chain[request[r].by],
             Range(tx_pool[request[r].by]) \subseteq Range(request[r].transactions)
      PROVE  Range(tx_pool'[request[r].by]) = Range(request[r].transactions)
  <2> DEFINE n == request[r].by
             c == chain[n]
             answer == request[r].transactions
  <2>1. DataInv /\ CallInv /\ ReadMempool(r)
    BY <1>1, ClosingHasRead DEF Inv
  <2>2. n \in Nodes
    <3>1. request[r] \in RequestType /\ request[r].pc # "none"
      BY <1>1, <2>1 DEF CallInv
    <3>2. QED
      BY <3>1, CallRecord
  <2>3. tx_pool'[n] = Offered(n, answer) /\ tx_pool[n] \in Seq(Tx)
    BY <2>1, <2>2 DEF ReadMempool, DataInv
  <2>4. StateOf(c) \in AddrState
    <3>1. c \in Seq(Block) /\ c # <<>>
      BY <2>1, <2>2 DEF DataInv, GoodChain
    <3>2. LedgersOf(c) \in [0..Len(c)-1 -> AddrState]
      BY <3>1, LedgersOfEquation
    <3>3. Len(c) - 1 \in 0..Len(c)-1
      BY <3>1
    <3> HIDE DEF c
    <3>4. QED
      BY <3>2, <3>3 DEF StateOf
  <2>5. /\ PoolOK(tx_pool[n], c, StateOf(c))
        /\ answer \in Seq(Tx) /\ PoolOK(answer, c, StateOf(c))
    <3>1. c # <<>>
      BY <2>1, <2>2 DEF DataInv, GoodChain
    <3>2. AnswerOK(answer, c)
      BY <1>1, <3>1 DEF AnswersOK
    <3>3. QED
      BY <1>1, <2>2, <3>2 DEF PoolsOK, AnswerOK
  <2>6. PICK pools : /\ Offers(pools, tx_pool[n], answer, c, StateOf(c))
                     /\ Offered(n, answer) = pools[Len(answer)]
    <3>1. answer \in Seq(SentTx)
      BY <2>5 DEF SentTx
    <3>2. QED
      BY <2>1, <2>2, <3>1, OfferedPools
  <2>7. Range(tx_pool[n]) \subseteq Range(answer)
    BY <1>1
  <2> HIDE DEF n, c, answer
  <2>8. Range(pools[Len(answer)]) = Range(answer)
    BY <2>2, <2>3, <2>4, <2>5, <2>6, <2>7, AnswerTaken
  <2>9. QED
    BY <2>3, <2>6, <2>8 DEF n, answer
<1> DEFINE Healed ==
             \A r \in Slots :
               LET n == request[r].by
                   answer == request[r].transactions
               IN  /\ request[r].pc = "answered"
                   /\ request'[r].pc = "closing"
                   /\ request[r].basis = chain[n]
                   /\ Range(tx_pool[n]) \subseteq Range(answer)
                   => Range(tx_pool'[n]) = Range(answer)
<1>2. Inv /\ PoolsOK /\ AnswersOK /\ [Next]_vars => Healed
  BY <1>1
<1>3. Inv /\ PoolsOK /\ AnswersOK /\ [Next]_vars => [Healed]_vars
  BY <1>2
<1>4. MempoolHealsGaps <=> [][Healed]_vars
  BY DEF MempoolHealsGaps
<1> HIDE DEF Healed
<1>5. QED
  BY <1>3, <1>4, PoolsInvariance, PTL DEF Spec

=============================================================================
