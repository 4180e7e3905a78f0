---------------------------- MODULE LedgerProofs ----------------------------
(***************************************************************************)
(* Lemmas about the operators of Ledger: their types, and what their loops *)
(* compute, from the equations of an Iterate.                              *)
(***************************************************************************)
EXTENDS Ledger, LoopProofs

-----------------------------------------------------------------------------
(* Types *)

LEMMA ApplyTxType ==
    ASSUME NEW state \in AddrState, NEW tx \in Tx
    PROVE  apply_tx(state, tx) \in AddrState /\ replay_tx(state, tx) \in AddrState
BY DEF apply_tx, replay_tx, AddrState, AccState, Tx

LEMMA StatesAlongEquation ==
    ASSUME NEW state \in AddrState, NEW txs \in Seq(Tx)
    PROVE  /\ StatesAlong(state, txs) \in [0..Len(txs) -> AddrState]
           /\ StatesAlong(state, txs)[0] = state
           /\ \A i \in 1..Len(txs) : StatesAlong(state, txs)[i]
                = apply_tx(StatesAlong(state, txs)[i-1], txs[i])
<1> DEFINE n == Len(txs)
           turn == [i \in 1..n |-> [s \in AddrState |-> apply_tx(s, txs[i])]]
<1>1. n \in Nat /\ \A i \in 1..n : txs[i] \in Tx
  OBVIOUS
<1>2. turn \in [1..n -> [AddrState -> AddrState]]
  BY <1>1, ApplyTxType
<1>3. \A i \in 1..n, s \in AddrState : turn[i][s] = apply_tx(s, txs[i])
  OBVIOUS
<1>4. StatesAlong(state, txs) = Iterate(turn, state, n)
  BY DEF StatesAlong
<1> HIDE DEF turn, n
<1>5. /\ Iterate(turn, state, n) \in [0..n -> AddrState]
      /\ Turns(Iterate(turn, state, n), turn, state, n)
  BY <1>1, <1>2, IterateEquation, Zenon
<1>6. \A i \in 1..n : Iterate(turn, state, n)[i-1] \in AddrState
  BY <1>1, <1>5
<1>7. QED
  BY <1>3, <1>4, <1>5, <1>6 DEF n, Turns

LEMMA ApplyBlockType ==
    ASSUME NEW state \in AddrState, NEW b \in Block
    PROVE  apply_block(state, b) \in AddrState
<1>1. b.txs \in Seq(Tx)
  BY DEF Block
<1>2. QED
  BY <1>1, StatesAlongEquation DEF apply_block

LEMMA ReplayBlockType ==
    ASSUME NEW state \in AddrState, NEW b \in Block
    PROVE  replay_block(state, b) \in AddrState
<1> DEFINE n == Len(b.txs)
           turn == [i \in 1..n |-> [s \in AddrState |-> replay_tx(s, b.txs[i])]]
<1>1. n \in Nat /\ \A i \in 1..n : b.txs[i] \in Tx
  BY DEF Block
<1>2. turn \in [1..n -> [AddrState -> AddrState]]
  BY <1>1, ApplyTxType
<1>3. replay_block(state, b) = Iterate(turn, state, n)[n]
  BY DEF replay_block
<1> HIDE DEF turn, n
<1>4. Iterate(turn, state, n) \in [0..n -> AddrState]
  BY <1>1, <1>2, IterateEquation, Zenon
<1>5. QED
  BY <1>1, <1>3, <1>4

LEMMA NoAccountsType == NoAccounts \in AddrState
BY DEF NoAccounts, AddrState, AccState

LEMMA ReplayType ==
    ASSUME NEW chain \in Seq(Block), chain # <<>>
    PROVE  rebuild_account_state(chain) \in AddrState
<1> DEFINE n == Len(chain) - 1
           turn == [h \in 1..n |-> [s \in AddrState |->
                                       replay_block(s, chain[h+1])]]
<1>1. n \in Nat /\ \A h \in 1..n : chain[h+1] \in Block
  OBVIOUS
<1>2. turn \in [1..n -> [AddrState -> AddrState]]
  BY <1>1, ReplayBlockType
<1>3. rebuild_account_state(chain) = Iterate(turn, NoAccounts, n)[n]
  BY DEF rebuild_account_state
<1> HIDE DEF turn, n
<1>4. Iterate(turn, NoAccounts, n) \in [0..n -> AddrState]
  BY <1>1, <1>2, IterateEquation, NoAccountsType, Zenon
<1>5. QED
  BY <1>1, <1>3, <1>4

LEMMA LedgersOfEquation ==
    ASSUME NEW chain \in Seq(Block), chain # <<>>
    PROVE  /\ LedgersOf(chain) \in [0..Len(chain)-1 -> AddrState]
           /\ LedgersOf(chain)[0] = NoAccounts
           /\ \A i \in 1..Len(chain)-1 : LedgersOf(chain)[i]
                = apply_block(LedgersOf(chain)[i-1], chain[i+1])
<1> DEFINE n == Len(chain) - 1
           turn == [i \in 1..n |-> [s \in AddrState |->
                                       apply_block(s, chain[i+1])]]
<1>1. n \in Nat /\ \A i \in 1..n : chain[i+1] \in Block
  OBVIOUS
<1>2. turn \in [1..n -> [AddrState -> AddrState]]
  BY <1>1, ApplyBlockType
<1>3. \A i \in 1..n, s \in AddrState : turn[i][s] = apply_block(s, chain[i+1])
  OBVIOUS
<1>4. LedgersOf(chain) = Iterate(turn, NoAccounts, n)
  BY DEF LedgersOf
<1> HIDE DEF turn, n
<1>5. /\ Iterate(turn, NoAccounts, n) \in [0..n -> AddrState]
      /\ Turns(Iterate(turn, NoAccounts, n), turn, NoAccounts, n)
  BY <1>1, <1>2, IterateEquation, NoAccountsType, Zenon
<1>6. \A i \in 1..n : Iterate(turn, NoAccounts, n)[i-1] \in AddrState
  BY <1>1, <1>5
<1>7. QED
  BY <1>3, <1>4, <1>5, <1>6 DEF n, Turns

LEMMA DifficultyAfterAppendRange ==
    ASSUME NEW chain, NEW current \in MIN_DIFFICULTY..MAX_DIFFICULTY
    PROVE  difficulty_after_append(chain, current)
             \in MIN_DIFFICULTY..MAX_DIFFICULTY
BY DifficultyAssumption DEF difficulty_after_append

LEMMA DifficultyAfterAppendType ==
    ASSUME NEW chain, NEW current \in Int
    PROVE  difficulty_after_append(chain, current) \in Int
BY DifficultyAssumption DEF difficulty_after_append

\* The difficulty asked of each block stays within its bounds.
LEMMA DifficultiesOfEquation ==
    ASSUME NEW chain \in Seq(Block), chain # <<>>, chain[1] = genesis_block
    PROVE  /\ DifficultiesOf(chain)
                \in [0..Len(chain)-1 -> MIN_DIFFICULTY..MAX_DIFFICULTY]
           /\ DifficultiesOf(chain)[0] = MIN_DIFFICULTY
           /\ \A i \in 1..Len(chain)-1 : DifficultiesOf(chain)[i]
                = difficulty_after_append(SubSeq(chain, 1, i + 1),
                                          DifficultiesOf(chain)[i-1])
<1> DEFINE n == Len(chain) - 1
           turn == [i \in 1..n |-> [d \in Int |->
                       difficulty_after_append(SubSeq(chain, 1, i + 1), d)]]
           it == Iterate(turn, MIN_DIFFICULTY, n)
<1>1. n \in Nat /\ MIN_DIFFICULTY \in Int
  BY DifficultyAssumption
<1>2. turn \in [1..n -> [Int -> Int]]
  BY DifficultyAfterAppendType
<1>3. \A i \in 1..n, d \in Int :
         turn[i][d] = difficulty_after_append(SubSeq(chain, 1, i + 1), d)
  OBVIOUS
<1>4. DifficultiesOf(chain) = it
  BY DEF DifficultiesOf, genesis_block
<1> HIDE DEF turn, n
<1>5. it \in [0..n -> Int] /\ Turns(it, turn, MIN_DIFFICULTY, n)
  BY <1>1, <1>2, IterateEquation, Zenon
<1> HIDE DEF it
<1>6. \A i \in 1..n : it[i] = difficulty_after_append(SubSeq(chain, 1, i + 1),
                                                      it[i-1])
  <2> SUFFICES ASSUME NEW i \in 1..n
               PROVE  it[i] = difficulty_after_append(SubSeq(chain, 1, i + 1),
                                                      it[i-1])
    OBVIOUS
  <2>1. it[i-1] \in Int
    BY <1>1, <1>5
  <2>2. QED
    BY <2>1, <1>3, <1>5 DEF Turns
<1>7. \A i \in 0..n : it[i] \in MIN_DIFFICULTY..MAX_DIFFICULTY
  <2> DEFINE I == MIN_DIFFICULTY..MAX_DIFFICULTY
  <2>1. I \in SUBSET Int /\ MIN_DIFFICULTY \in I
    BY DifficultyAssumption
  <2>2. \A i \in 1..n : \A d \in I : turn[i][d] \in I
    BY <1>3, <2>1, DifficultyAfterAppendRange
  <2> HIDE DEF I
  <2>3. \A i \in 0..n : it[i] \in I
    BY <1>1, <1>2, <2>1, <2>2, IterateInvariant, Zenon DEF it
  <2>4. QED
    BY <2>3 DEF I
<1>8. it \in [0..n -> MIN_DIFFICULTY..MAX_DIFFICULTY]
  BY <1>5, <1>7
<1>9. QED
  BY <1>4, <1>5, <1>6, <1>8 DEF n, Turns

LEMMA IndexTxType ==
    ASSUME NEW index \in AddrTxIndex, NEW tx \in Tx, NEW height \in Int
    PROVE  index_tx(index, tx, height) \in AddrTxIndex
<1> DEFINE ref(role) == [tx_id |-> tx_id(tx), block_height |-> height,
                         role |-> role]
           sent == [index EXCEPT ![tx.sender] = Append(@, ref("sent"))]
<1>1. tx_id(tx) \in TxId /\ tx.sender \in Accounts /\ tx.recipient \in Accounts
  BY DEF tx_id, TxId, Tx
<1>2. ref("sent") \in AddrTxRef /\ ref("received") \in AddrTxRef
  BY <1>1 DEF AddrTxRef
<1>3. index_tx(index, tx, height)
        = [sent EXCEPT ![tx.recipient] = Append(@, ref("received"))]
  BY DEF index_tx
<1> HIDE DEF ref
<1>4. sent \in AddrTxIndex
  BY <1>1, <1>2 DEF AddrTxIndex
<1> HIDE DEF sent
<1>5. QED
  BY <1>1, <1>2, <1>3, <1>4 DEF AddrTxIndex

LEMMA IndexBlockType ==
    ASSUME NEW index \in AddrTxIndex, NEW b \in Block
    PROVE  index_block(index, b) \in AddrTxIndex
<1> DEFINE n == Len(b.txs)
           turn == [i \in 1..n |-> [x \in AddrTxIndex |->
                                       index_tx(x, b.txs[i], b.height)]]
<1>1. n \in Nat /\ b.height \in Int /\ \A i \in 1..n : b.txs[i] \in Tx
  BY DEF Block
<1>2. turn \in [1..n -> [AddrTxIndex -> AddrTxIndex]]
  BY <1>1, IndexTxType
<1>3. index_block(index, b) = Iterate(turn, index, n)[n]
  BY DEF index_block
<1> HIDE DEF turn, n
<1>4. Iterate(turn, index, n) \in [0..n -> AddrTxIndex]
  BY <1>1, <1>2, IterateEquation, Zenon
<1>5. QED
  BY <1>1, <1>3, <1>4

LEMMA RebuildIndexType ==
    ASSUME NEW chain \in Seq(Block)
    PROVE  rebuild_index(chain) \in AddrTxIndex
<1> DEFINE n == Len(chain)
           turn == [i \in 1..n |-> [x \in AddrTxIndex |->
                                       index_block(x, chain[i])]]
<1>1. n \in Nat /\ \A i \in 1..n : chain[i] \in Block
  OBVIOUS
<1>2. turn \in [1..n -> [AddrTxIndex -> AddrTxIndex]]
  BY <1>1, IndexBlockType
<1>3. rebuild_index(chain) = Iterate(turn, NoEntries, n)[n]
  BY DEF rebuild_index
<1>4. NoEntries \in AddrTxIndex
  BY DEF NoEntries, AddrTxIndex
<1> HIDE DEF turn, n
<1>5. Iterate(turn, NoEntries, n) \in [0..n -> AddrTxIndex]
  BY <1>1, <1>2, <1>4, IterateEquation, Zenon
<1>6. QED
  BY <1>1, <1>3, <1>5

\* Pushing a transaction makes its id the one more that is pending.
LEMMA PendingIdsAppend ==
    ASSUME NEW pool \in Seq(Tx), NEW tx \in Tx
    PROVE  PendingIds(Append(pool, tx)) = PendingIds(pool) \cup {tx_id(tx)}
<1> DEFINE n == Len(pool)
           longer == Append(pool, tx)
<1>1. /\ n \in Nat /\ Len(longer) = n + 1 /\ longer[n + 1] = tx
      /\ \A i \in 1..n : longer[i] = pool[i]
  OBVIOUS
<1>2. 1..(n + 1) = (1..n) \cup {n + 1}
  BY <1>1
<1>3. PendingIds(longer) = {tx_id(longer[i]) : i \in 1..(n + 1)}
  BY <1>1 DEF PendingIds
<1> HIDE DEF longer
<1>4. ASSUME NEW x
      PROVE  x \in PendingIds(longer)
               <=> x \in PendingIds(pool) \/ x = tx_id(tx)
  BY <1>1, <1>2, <1>3, Zenon DEF PendingIds
<1>5. QED
  BY <1>4 DEF longer

\* What is offered to an empty pool and admitted is well typed and none of it
\* is confirmed on the chain.
LEMMA RevalidatePending ==
    ASSUME NEW pending \in Seq(Tx), NEW chain, NEW state
    PROVE  LET pool == revalidate_pending_transactions(pending, chain, state)
           IN  /\ pool \in Seq(Tx)
               /\ PendingIds(pool) \cap ConfirmedIds(chain) = {}
<1> DEFINE n == Len(pending)
           turn == [i \in 1..n |-> [pool \in Seq(Tx) |->
                       IF Admissible(pending[i], pool, chain, state)
                       THEN Append(pool, pending[i]) ELSE pool]]
           I == {pool \in Seq(Tx) : PendingIds(pool) \cap ConfirmedIds(chain) = {}}
<1>1. n \in Nat /\ <<>> \in Seq(Tx) /\ \A i \in 1..n : pending[i] \in Tx
  OBVIOUS
<1>2. turn \in [1..n -> [Seq(Tx) -> Seq(Tx)]]
  BY <1>1
<1>3. I \in SUBSET Seq(Tx) /\ <<>> \in I
  BY DEF PendingIds
<1>4. ASSUME NEW i \in 1..n, NEW pool \in I
      PROVE  turn[i][pool] \in I
  <2>1. CASE ~ Admissible(pending[i], pool, chain, state)
    <3>1. turn[i][pool] = pool
      BY <2>1
    <3>2. QED
      BY <3>1
  <2>2. CASE Admissible(pending[i], pool, chain, state)
    <3>1. turn[i][pool] = Append(pool, pending[i])
      BY <2>2
    <3>2. Append(pool, pending[i]) \in Seq(Tx)
      BY <1>1
    <3>3. tx_id(pending[i]) \notin ConfirmedIds(chain)
      BY <2>2 DEF Admissible
    <3>4. PendingIds(Append(pool, pending[i]))
            = PendingIds(pool) \cup {tx_id(pending[i])}
      BY <1>1, <1>3, PendingIdsAppend
    <3>5. QED
      BY <3>1, <3>2, <3>3, <3>4
  <2>3. QED
    BY <2>1, <2>2
<1>5. revalidate_pending_transactions(pending, chain, state)
        = Iterate(turn, <<>>, n)[n]
  BY DEF revalidate_pending_transactions
<1> HIDE DEF turn, n, I
<1>6. \A i \in 0..n : Iterate(turn, <<>>, n)[i] \in I
  BY <1>1, <1>2, <1>3, <1>4, IterateInvariant, Zenon
<1>7. Iterate(turn, <<>>, n)[n] \in I
  BY <1>1, <1>6
<1>8. QED
  BY <1>5, <1>7 DEF I

LEMMA GenesisType == genesis_block \in Block
BY NumberAssumption, DifficultyAssumption
   DEF genesis_block, Block, Digest

LEMMA BlockHashType ==
    ASSUME NEW b \in Block
    PROVE  block_hash(b) \in Digest
BY DEF block_hash, Block, Digest, Content

\* The block assembled from a pool is well typed.
LEMMA NewBlockType ==
    ASSUME NEW chain \in Seq(Block), chain # <<>>, NEW difficulty \in Int,
           NEW pool \in Seq(Tx), NEW miner \in Accounts, NEW now \in Int
    PROVE  new_block(chain, difficulty, pool, miner, now) \in Block
<1> DEFINE latest == get_latest_block(chain)
           fees == SumSeq([i \in 1..Len(pool) |-> pool[i].fee])
           reward_tx == SystemTx(BLOCK_REWARD, miner, now)
           fee_tx == SystemTx(fees, VANITY_ADDR, now)
<1>1. latest \in Block
  BY DEF get_latest_block
<1>2. latest.height + 1 \in Int /\ block_hash(latest) \in Digest
  BY <1>1, BlockHashType DEF Block
<1>3. fees \in Int
  <2>1. Len(pool) \in Nat /\ \A i \in 1..Len(pool) : pool[i] \in Tx
    OBVIOUS
  <2>2. \A i \in 1..Len(pool) : pool[i].fee \in Int
    BY <2>1 DEF Tx
  <2>3. [i \in 1..Len(pool) |-> pool[i].fee] \in [1..Len(pool) -> Int]
    BY <2>2
  <2>4. QED
    BY <2>1, <2>3, SumSeqType
<1>4. reward_tx \in Tx
  BY NumberAssumption DEF SystemTx, Tx, Accounts
<1>5. fee_tx \in Tx
  BY <1>3 DEF SystemTx, Tx, Accounts
<1> HIDE DEF fees, reward_tx, fee_tx, latest
<1>6. pool \o <<reward_tx, fee_tx>> \in Seq(Tx)
  BY <1>4, <1>5
<1>7. new_block(chain, difficulty, pool, miner, now)
        = [height |-> latest.height + 1, prev |-> block_hash(latest),
           difficulty |-> difficulty, timestamp |-> now,
           txs |-> pool \o <<reward_tx, fee_tx>>, sealed |-> TRUE]
  BY DEF new_block, latest, fees, reward_tx, fee_tx
<1>8. QED
  BY <1>2, <1>6, <1>7 DEF Block

=============================================================================
